---- MODULE Spec2Model ----
(***************************************************************************)
(* Verification model of the code search engine: the BM25 lexical index    *)
(* (codesearch/storage/bm25_index.py), the indexing pipeline               *)
(* (codesearch/indexer/repo_indexer.py), the hybrid search engine          *)
(* (codesearch/search/engine.py) and the queue worker                      *)
(* (codesearch/queue/worker.py).                                           *)
(***************************************************************************)
EXTENDS Integers, Sequences, FiniteSets, TLC

(***************************************************************************)
(* Bounds of the model.                                                    *)
(***************************************************************************)
MaxEntities == 3
MaxBatch == 2
MaxLimit == 2
MaxRuns == 2

(***************************************************************************)
(* Generic helpers on sequences.                                           *)
(***************************************************************************)
Range(s) == {s[i] : i \in 1..Len(s)}

\* s[:n] of Python for n >= 0
Prefix(s, n) == IF n >= Len(s) THEN s ELSE SubSeq(s, 1, n)

RECURSIVE Flatten(_)
Flatten(ss) == IF ss = <<>> THEN <<>> ELSE Head(ss) \o Flatten(Tail(ss))

RECURSIVE SumSeq(_)
SumSeq(s) == IF s = <<>> THEN 0 ELSE Head(s) + SumSeq(Tail(s))

RECURSIVE SumOver(_, _)
SumOver(S, f) ==
    IF S = {} THEN 0
    ELSE LET x == CHOOSE y \in S : TRUE IN f[x] + SumOver(S \ {x}, f)

\* the sequences over S of length at most n
SeqUpTo(S, n) == UNION {[1..k -> S] : k \in 0..n}

(***************************************************************************)
(* models.py: Language and CodeEntityType are string enums; an entity      *)
(* stores the member, filters compare against the member's value.          *)
(***************************************************************************)
LanguageValue(member) ==
    CASE member = "PYTHON" -> "python"
      [] member = "JAVASCRIPT" -> "javascript"
      [] OTHER -> "unknown"

EntityTypeValue(member) ==
    CASE member = "FUNCTION" -> "function"
      [] member = "METHOD" -> "method"
      [] member = "CLASS" -> "class"
      [] OTHER -> "module"

LanguageMembers == {"PYTHON", "JAVASCRIPT"}
EntityTypeMembers == {"FUNCTION", "METHOD", "CLASS"}

\* CodeEntity: the fields the index, the filters and the ranker read.
\* A text field is a sequence of whitespace-separated words; "" is None.
CodeEntity(id, name, etype, lang, path, repo, sig, doc) ==
    [id |-> id, name |-> name, entity_type |-> etype, language |-> lang,
     file_path |-> path, repo_name |-> repo, signature |-> sig,
     docstring |-> doc]

EntityFields ==
    {"id", "name", "entity_type", "language", "file_path", "repo_name",
     "signature", "docstring"}

RepoNames == {"a", "b"}

\* The entities callers hand to the index. Id 1 occurs with two different
\* contents.
EntityPool ==
    { CodeEntity(1, "send", "METHOD", "PYTHON", "sessions.py", "a",
                 <<"def", "send">>, <<"send", "HTTP", "request">>),
      CodeEntity(1, "parse_json", "FUNCTION", "JAVASCRIPT", "util.js", "b",
                 <<"function", "parse_json">>, <<>>),
      CodeEntity(2, "handle_request", "FUNCTION", "PYTHON", "views.py", "a",
                 <<"def", "handle_request">>, <<>>),
      CodeEntity(3, "parseJSON", "FUNCTION", "JAVASCRIPT", "api.py", "b",
                 <<"function", "parseJSON">>, <<"parse_json", "request">>) }

(***************************************************************************)
(* BM25Index._tokenize: camelCase split, lowercase, separators to spaces,  *)
(* tokens shorter than two characters dropped. Given per word.             *)
(***************************************************************************)
TokenizeWord(w) ==
    CASE w = "send" -> <<"send">>
      [] w = "HTTP" -> <<"http">>
      [] w = "http" -> <<"http">>
      [] w = "request" -> <<"request">>
      [] w = "parse_json" -> <<"parse", "json">>
      [] w = "parseJSON" -> <<"parse", "json">>
      [] w = "JSON" -> <<"json">>
      [] w = "handle_request" -> <<"handle", "request">>
      [] w = "def" -> <<"def">>
      [] w = "function" -> <<"function">>
      [] w = "class" -> <<"class">>
      [] w = "x" -> <<>>
      [] w = "?" -> <<>>
      [] OTHER -> <<w>>

Tokenize(text) == Flatten([i \in 1..Len(text) |-> TokenizeWord(text[i])])

\* BM25Index._entity_to_document: the non-empty parts, space-joined
\* (parameters, parent_class and return_type are empty in EntityPool)
EntityToDocument(entity) ==
    <<entity.name>> \o entity.signature \o entity.docstring

(***************************************************************************)
(* rank_bm25.BM25Okapi as used by _rebuild_index and search, in fixed      *)
(* point: scores are 1000 times the library's, k1 = 1.5, b = 0.75,         *)
(* epsilon = 0.25. A model is the corpus it was built from.                *)
(***************************************************************************)
\* 1000 * ln(k) for the odd k the idf formula needs
Ln1000(k) ==
    CASE k = 1 -> 0
      [] k = 3 -> 1099
      [] k = 5 -> 1609
      [] k = 7 -> 1946
      [] k = 9 -> 2197
      [] k = 11 -> 2398
      [] k = 13 -> 2565
      [] k = 15 -> 2708
      [] OTHER -> 2833

\* number of occurrences of token w in document d
TermFreq(d, w) == Cardinality({i \in 1..Len(d) : d[i] = w})

\* number of documents of the corpus that contain w
DocFreq(c, w) == Cardinality({i \in 1..Len(c) : TermFreq(c[i], w) > 0})

CorpusVocabulary(c) == UNION {Range(c[i]) : i \in 1..Len(c)}

\* ln(N - n + 0.5) - ln(n + 0.5)
RawIdf(c, w) ==
    Ln1000(2 * (Len(c) - DocFreq(c, w)) + 1) - Ln1000(2 * DocFreq(c, w) + 1)

\* negative idfs are replaced by epsilon * average_idf
Idf(c, w) ==
    LET V == CorpusVocabulary(c)
        avg4 == SumOver(V, [v \in V |-> RawIdf(c, v)]) \div (4 * Cardinality(V))
    IN IF w \notin V THEN 0
       ELSE IF RawIdf(c, w) < 0 THEN avg4 ELSE RawIdf(c, w)

\* f * (k1 + 1) / (f + k1 * (1 - b + b * dl / avgdl)), times idf
TermScore(c, d, w) ==
    LET f == TermFreq(d, w)
        total == SumSeq([i \in 1..Len(c) |-> Len(c[i])])
    IN IF f = 0 THEN 0
       ELSE (Idf(c, w) * 20 * f * total)
                \div (8 * f * total + 3 * total + 9 * Len(d) * Len(c))

\* BM25Okapi.get_scores: one score per document of the model's corpus
GetScores(c, queryTokens) ==
    [i \in 1..Len(c) |->
        SumSeq([j \in 1..Len(queryTokens) |-> TermScore(c, c[i], queryTokens[j])])]

(***************************************************************************)
(* BM25Index: _entities, _corpus, _entity_ids (id -> 0-based row), _bm25.  *)
(***************************************************************************)
NoBM25 == [built |-> FALSE, corpus |-> <<>>]

BM25Okapi(c) == [built |-> TRUE, corpus |-> c]

\* BM25Index.__init__
EmptyIndex ==
    [entities |-> <<>>, corpus |-> <<>>, entity_ids |-> <<>>, bm25 |-> NoBM25]

\* BM25Index._rebuild_index
RebuildIndex(ix) ==
    IF ix.corpus = <<>> THEN [ix EXCEPT !.bm25 = NoBM25]
    ELSE [ix EXCEPT !.bm25 = BM25Okapi(ix.corpus)]

\* d[k] = v of a Python dict
DictPut(d, k, v) == [x \in DOMAIN d \cup {k} |-> IF x = k THEN v ELSE d[x]]

\* an add loop without the duplicate test
RECURSIVE AddLoopNoSkip(_, _, _)
AddLoopNoSkip(ix, batch, added) ==
    IF batch = <<>> THEN [ix |-> ix, added |-> added]
    ELSE LET entity == Head(batch) IN
         AddLoopNoSkip(
                [ix EXCEPT
                   !.entity_ids = DictPut(ix.entity_ids, entity.id, Len(ix.entities)),
                   !.entities = Append(ix.entities, entity),
                   !.corpus = Append(ix.corpus, Tokenize(EntityToDocument(entity)))],
                Tail(batch), added + 1)

\* the loop of add_entities: [ix, added] after the entities of the batch
RECURSIVE AddLoop(_, _, _)
AddLoop(ix, batch, added) ==
    IF batch = <<>> THEN [ix |-> ix, added |-> added]
    ELSE LET entity == Head(batch) IN
         IF entity.id \in DOMAIN ix.entity_ids
         THEN AddLoop(ix, Tail(batch), added)
         ELSE AddLoop(
                [ix EXCEPT
                   !.entity_ids = DictPut(ix.entity_ids, entity.id, Len(ix.entities)),
                   !.entities = Append(ix.entities, entity),
                   !.corpus = Append(ix.corpus, Tokenize(EntityToDocument(entity)))],
                Tail(batch), added + 1)

\* an add that stops after the first entity of the batch
AddEntitiesFirstOnly(ix, batch) ==
    LET r == AddLoop(ix, Prefix(batch, 1), 0) IN
    [ix |-> IF r.added > 0 THEN RebuildIndex(r.ix) ELSE r.ix, ret |-> r.added]

\* BM25Index.add_entities: [ix |-> the index afterwards, ret |-> added]
AddEntities(ix, batch) ==
    LET r == AddLoop(ix, batch, 0) IN
    [ix |-> IF r.added > 0 THEN RebuildIndex(r.ix) ELSE r.ix, ret |-> r.added]

\* BM25Index.count
Count(ix) == Len(ix.entities)

\* BM25Index.clear
Clear(ix) == EmptyIndex

(***************************************************************************)
(* BM25Index.search                                                        *)
(***************************************************************************)
\* the filters a caller can pass: a dict over a subset of the three keys
FilterKeys == {"language", "entity_type", "repo_name"}

NoFilters == <<>>

\* a filter test that forgets the entity_type key
PassesFiltersNoType(entity, filters) ==
    /\ ("language" \in DOMAIN filters
            => LanguageValue(entity.language) = filters["language"])
    /\ ("repo_name" \in DOMAIN filters
            => entity.repo_name = filters["repo_name"])

\* the filter tests of the search loop: TRUE when the entity is kept
PassesFilters(entity, filters) ==
    /\ ("language" \in DOMAIN filters
            => LanguageValue(entity.language) = filters["language"])
    /\ ("entity_type" \in DOMAIN filters
            => EntityTypeValue(entity.entity_type) = filters["entity_type"])
    /\ ("repo_name" \in DOMAIN filters
            => entity.repo_name = filters["repo_name"])

\* list.sort(key=score, reverse=True): stable, descending
RECURSIVE InsertDesc(_, _)
InsertDesc(sorted, item) ==
    IF sorted = <<>> THEN <<item>>
    ELSE IF Head(sorted).score >= item.score
         THEN <<Head(sorted)>> \o InsertDesc(Tail(sorted), item)
         ELSE <<item>> \o sorted

RECURSIVE SortDesc(_)
SortDesc(items) ==
    IF items = <<>> THEN <<>>
    ELSE InsertDesc(SortDesc(SubSeq(items, 1, Len(items) - 1)), items[Len(items)])

MaxOf(scores) == CHOOSE m \in Range(scores) : \A x \in Range(scores) : x <= m

\* a floor that keeps the strictly positive scores only
BelowPositive(score, scores) == score <= 0

\* score < min_score, with min_score = max * 0.01 when max > 0, else -inf
BelowMinScore(score, scores) ==
    IF Len(scores) > 0 /\ MaxOf(scores) > 0
    THEN 100 * score < MaxOf(scores)
    ELSE FALSE

\* the rows the loop of search reaches, in order, until it raises or ends:
\* [raised, items]; self._entities[idx] raises IndexError past the list
RECURSIVE SearchLoop(_, _, _, _, _)
SearchLoop(entities, scores, filters, i, acc) ==
    IF i > Len(scores) THEN [raised |-> FALSE, items |-> acc]
    ELSE IF BelowMinScore(scores[i], scores)
         THEN SearchLoop(entities, scores, filters, i + 1, acc)
    ELSE IF i > Len(entities) THEN [raised |-> TRUE, items |-> <<>>]
    ELSE IF filters # NoFilters /\ ~PassesFilters(entities[i], filters)
         THEN SearchLoop(entities, scores, filters, i + 1, acc)
    ELSE SearchLoop(entities, scores, filters, i + 1,
                    Append(acc, [entity |-> entities[i], score |-> scores[i]]))

\* search with the model bm and the entity list it reads
SearchWith(bm, entities, query, limit, filters) ==
    IF ~bm.built \/ entities = <<>> THEN [raised |-> FALSE, items |-> <<>>]
    ELSE IF Tokenize(query) = <<>> THEN [raised |-> FALSE, items |-> <<>>]
    ELSE LET r == SearchLoop(entities, GetScores(bm.corpus, Tokenize(query)),
                             filters, 1, <<>>)
         IN IF r.raised THEN r
            ELSE [raised |-> FALSE, items |-> Prefix(SortDesc(r.items), limit)]

\* BM25Index.search: [raised, items], items the (entity, score) pairs
Search(ix, query, limit, filters) ==
    SearchWith(ix.bm25, ix.entities, query, limit, filters)

(***************************************************************************)
(* BM25Index.remove_by_repo                                                *)
(***************************************************************************)
\* self._entities[idx] of the first loop raises IndexError for a row of
\* _entity_ids past the entity list
RemoveRaises(ix) ==
    \E k \in DOMAIN ix.entity_ids : ix.entity_ids[k] >= Len(ix.entities)

\* a removal that stops at the first matching row
ToRemoveFirstOnly(ix, repo_name) ==
    LET rows == {ix.entity_ids[k] : k \in
                    {k \in DOMAIN ix.entity_ids :
                        ix.entities[ix.entity_ids[k] + 1].repo_name = repo_name}}
    IN {m \in rows : \A x \in rows : m <= x}

\* the rows found through _entity_ids whose entity belongs to the repo
ToRemove(ix, repo_name) ==
    {ix.entity_ids[id] : id \in
        {k \in DOMAIN ix.entity_ids :
            ix.entities[ix.entity_ids[k] + 1].repo_name = repo_name}}

\* a rebuild loop that keeps the old row numbers in the id-map
RECURSIVE KeepLoopOldRows(_, _, _, _)
KeepLoopOldRows(ix, to_remove, i, acc) ==
    IF i > Len(ix.entities) \/ i > Len(ix.corpus) THEN acc
    ELSE IF (i - 1) \in to_remove THEN KeepLoopOldRows(ix, to_remove, i + 1, acc)
    ELSE KeepLoopOldRows(ix, to_remove, i + 1,
            [acc EXCEPT
               !.entity_ids = DictPut(acc.entity_ids, ix.entities[i].id, i - 1),
               !.entities = Append(acc.entities, ix.entities[i]),
               !.corpus = Append(acc.corpus, ix.corpus[i])])

\* the rebuild loop over zip(_entities, _corpus), rows not in to_remove kept
RECURSIVE KeepLoop(_, _, _, _)
KeepLoop(ix, to_remove, i, acc) ==
    IF i > Len(ix.entities) \/ i > Len(ix.corpus) THEN acc
    ELSE IF (i - 1) \in to_remove THEN KeepLoop(ix, to_remove, i + 1, acc)
    ELSE KeepLoop(ix, to_remove, i + 1,
            [acc EXCEPT
               !.entity_ids = DictPut(acc.entity_ids, ix.entities[i].id, Len(acc.entities)),
               !.entities = Append(acc.entities, ix.entities[i]),
               !.corpus = Append(acc.corpus, ix.corpus[i])])

\* [ix |-> the index afterwards, ret |-> removed_count, raised]
RemoveByRepo(ix, repo_name) ==
    IF RemoveRaises(ix) THEN [ix |-> ix, ret |-> 0, raised |-> TRUE]
    ELSE
    LET to_remove == ToRemove(ix, repo_name) IN
    IF to_remove = {} THEN [ix |-> ix, ret |-> 0, raised |-> FALSE]
    ELSE LET kept == KeepLoop(ix, to_remove, 1, [EmptyIndex EXCEPT !.bm25 = ix.bm25])
         IN [ix |-> RebuildIndex(kept), ret |-> Cardinality(to_remove),
             raised |-> FALSE]

(***************************************************************************)
(* BM25Index.save / load: the file bm25_index.pkl of the index directory.  *)
(***************************************************************************)
NoFile == [kind |-> "missing"]

\* bytes that pickle.load rejects
GarbageFile == [kind |-> "garbage"]

\* a pickled dict
PickleFile(data) == [kind |-> "pickle", data |-> data]

\* CodeEntity.model_dump: the dict of the entity's fields
ModelDump(entity) == [f \in EntityFields |-> entity[f]]

\* CodeEntity(**e): validation accepts a dict that has the required fields
\* and enum members (or their values) for language and entity_type
ValidEntityDict(e) ==
    /\ EntityFields \ {"id", "signature", "docstring"} \subseteq DOMAIN e
    /\ e["language"] \in LanguageMembers
    /\ e["entity_type"] \in EntityTypeMembers

ParseEntity(e) ==
    CodeEntity(e["id"], e["name"], e["entity_type"], e["language"],
               e["file_path"], e["repo_name"], e["signature"], e["docstring"])

\* BM25Index.save: the file written
Save(ix) ==
    PickleFile([entities |-> [i \in 1..Len(ix.entities) |-> ModelDump(ix.entities[i])],
                corpus |-> ix.corpus,
                entity_ids |-> ix.entity_ids])

\* a load that leaves the BM25 model as it was
LoadNoRebuild(ix, file) ==
    IF file.kind # "pickle" THEN [ix |-> ix, ret |-> FALSE]
    ELSE [ix |-> [ix EXCEPT
                    !.entities = [i \in 1..Len(file.data.entities) |->
                                     ParseEntity(file.data.entities[i])],
                    !.corpus = file.data.corpus,
                    !.entity_ids = file.data.entity_ids],
          ret |-> TRUE]

\* BM25Index.load: [ix |-> the index afterwards, ret |-> True / False].
\* The assignments run in order inside one try block; the first statement
\* that raises ends the load with what was assigned before it kept.
Load(ix, file) ==
    IF file.kind = "missing" THEN [ix |-> ix, ret |-> FALSE]
    ELSE IF file.kind = "garbage" THEN [ix |-> ix, ret |-> FALSE]
    ELSE LET data == file.data IN
    IF \/ "entities" \notin DOMAIN data
       \/ \E i \in 1..Len(data.entities) : ~ValidEntityDict(data.entities[i])
    THEN [ix |-> ix, ret |-> FALSE]
    ELSE LET ix1 == [ix EXCEPT !.entities =
                        [i \in 1..Len(data.entities) |-> ParseEntity(data.entities[i])]]
    IN
    IF "corpus" \notin DOMAIN data THEN [ix |-> ix1, ret |-> FALSE]
    ELSE LET ix2 == [ix1 EXCEPT !.corpus = data.corpus] IN
    IF "entity_ids" \notin DOMAIN data THEN [ix |-> ix2, ret |-> FALSE]
    ELSE [ix |-> RebuildIndex([ix2 EXCEPT !.entity_ids = data.entity_ids]),
          ret |-> TRUE]

(***************************************************************************)
(* QdrantStore: the collection is a map from point id to its payload and   *)
(* vector. A vector is "unit" (an embedding) or "zero" (the fallback).      *)
(***************************************************************************)
EmptyStore == <<>>

\* Language(value), CodeEntityType(value): the member with that value
LanguageOf(value) ==
    CASE value = "python" -> "PYTHON"
      [] value = "javascript" -> "JAVASCRIPT"
      [] OTHER -> "UNKNOWN"

EntityTypeOf(value) ==
    CASE value = "function" -> "FUNCTION"
      [] value = "method" -> "METHOD"
      [] value = "class" -> "CLASS"
      [] OTHER -> "MODULE"

\* the payload insert builds: the enum fields are stored by value
Payload(entity) ==
    [name |-> entity.name, entity_type |-> EntityTypeValue(entity.entity_type),
     language |-> LanguageValue(entity.language), file_path |-> entity.file_path,
     repo_name |-> entity.repo_name, docstring |-> entity.docstring,
     signature |-> entity.signature]

\* the CodeEntity that search builds from a stored point
EntityOfPoint(id, point) ==
    CodeEntity(id, point.payload.name, EntityTypeOf(point.payload.entity_type),
               LanguageOf(point.payload.language), point.payload.file_path,
               point.payload.repo_name, point.payload.signature,
               point.payload.docstring)

\* the upsert of the points of (entities, embeddings), in order
RECURSIVE Upsert(_, _, _)
Upsert(vs, entities, embeddings) ==
    IF entities = <<>> THEN vs
    ELSE Upsert(DictPut(vs, Head(entities).id,
                        [payload |-> Payload(Head(entities)),
                         vector |-> Head(embeddings)]),
                Tail(entities), Tail(embeddings))

StopAfterAttempt == 3

\* one run of the body of insert, lines 163-208; fails says whether the
\* backend fails this upsert call
InsertBody(vs, entities, embeddings, fails) ==
    IF Len(entities) # Len(embeddings)
    THEN [vs |-> vs, ret |-> 0, raised |-> "ValueError", upserts |-> 0]
    ELSE IF entities = <<>>
    THEN [vs |-> vs, ret |-> 0, raised |-> "", upserts |-> 0]
    ELSE IF fails
    THEN [vs |-> vs, ret |-> 0, raised |-> "backend", upserts |-> 1]
    ELSE [vs |-> Upsert(vs, entities, embeddings), ret |-> Len(entities),
          raised |-> "", upserts |-> 1]

\* the @retry of line 157: no retry= argument, so an attempt that raises
\* anything is repeated after a wait until stop_after_attempt; no reraise=,
\* so the last failure leaves as RetryError. stop is the attempt the retrying
\* stops at.
RECURSIVE RetryInsert(_, _, _, _, _, _, _)
RetryInsert(vs, entities, embeddings, failing, stop, attempt, upserts) ==
    LET once == InsertBody(vs, entities, embeddings, attempt <= failing) IN
    IF once.raised = ""
    THEN [vs |-> once.vs, ret |-> once.ret, raised |-> FALSE, error |-> "",
          attempts |-> attempt, upserts |-> upserts + once.upserts,
          waits |-> attempt - 1]
    ELSE IF attempt >= stop
    THEN [vs |-> vs, ret |-> 0, raised |-> TRUE, error |-> "RetryError",
          attempts |-> attempt, upserts |-> upserts + once.upserts,
          waits |-> attempt - 1]
    ELSE RetryInsert(vs, entities, embeddings, failing, stop, attempt + 1,
                     upserts + once.upserts)

\* retrying that stops one attempt later
InsertOneMoreAttempt(vs, entities, embeddings, failing) ==
    RetryInsert(vs, entities, embeddings, failing, StopAfterAttempt + 1, 1, 0)

\* QdrantStore.insert under @retry: failing is the number of consecutive
\* upsert calls the backend fails.
\* [vs, ret, raised, error, attempts, upserts, waits]
Insert(vs, entities, embeddings, failing) ==
    RetryInsert(vs, entities, embeddings, failing, StopAfterAttempt, 1, 0)

\* a delete whose filter matches no point
DeleteByRepoNoMatch(vs, repo_name) == [vs |-> vs, ret |-> 0]

\* QdrantStore.delete_by_repo: [vs |-> the collection afterwards, ret |-> count]
DeleteByRepo(vs, repo_name) ==
    LET gone == {id \in DOMAIN vs : vs[id].payload.repo_name = repo_name}
    IN [vs |-> [id \in DOMAIN vs \ gone |-> vs[id]], ret |-> Cardinality(gone)]

\* the points that satisfy the query_filter: a must-condition per filter key
MatchingPoints(vs, filters) ==
    {id \in DOMAIN vs :
        \A key \in DOMAIN filters \cap FilterKeys : vs[id].payload[key] = filters[key]}

\* QdrantStore.search: the backend ranks the matching points by cosine
\* similarity; ranking is that order (best first) and scores its scores.
\* The first limit points come back as (entity, score) pairs.
VectorSearch(vs, ranking, scores, limit, filters) ==
    LET hits == SelectSeq(ranking, LAMBDA id : id \in MatchingPoints(vs, filters))
    IN [i \in 1..(IF Len(hits) < limit THEN Len(hits) ELSE limit) |->
          [entity |-> EntityOfPoint(hits[i], vs[hits[i]]), score |-> scores[i]]]

(***************************************************************************)
(* EmbeddingGenerator.embed_entities: batches of BatchSize texts; a batch  *)
(* whose embed_batch call fails gets zero vectors.                         *)
(***************************************************************************)
BatchSize == 1

BatchOf(i) == (i - 1) \div BatchSize + 1

\* an embed_entities that leaves out the vectors of a failed batch
EmbedEntitiesDropFailed(entities, failed) ==
    SelectSeq([i \in 1..Len(entities) |->
                  IF BatchOf(i) \in failed THEN "none" ELSE "unit"],
              LAMBDA v : v # "none")

\* failed is the set of batch numbers whose model call raises
EmbedEntities(entities, failed) ==
    [i \in 1..Len(entities) |-> IF BatchOf(i) \in failed THEN "zero" ELSE "unit"]

(***************************************************************************)
(* RepoIndexer: the pipeline of index_directory and index_repo over the    *)
(* system [index, disk, vstore, ready]; ready is _storage_initialized.     *)
(***************************************************************************)
\* RepoIndexer._ensure_storage: the first use loads the index file
EnsureStorage(sys) ==
    IF sys.ready THEN sys
    ELSE [sys EXCEPT !.index = Load(EmptyIndex, sys.disk).ix, !.ready = TRUE]

IndexResult(success, found, indexed, error) ==
    [success |-> success, entities_found |-> found, entities_indexed |-> indexed,
     error |-> error]

\* the steps of a run that come after parsing, up to the step that raises.
\* fault names that step ("none": no step raises); failed are the embedding
\* batches that fall back to zero vectors. error is str(e), a text the
\* model keeps as "error".
RunSteps(sys, repo_name, entities, fault, failed) ==
    LET failure == IndexResult(FALSE, 0, 0, "error") IN
    IF fault = "storage" THEN [sys |-> sys, result |-> failure]
    ELSE LET s1 == EnsureStorage(sys) IN
    IF fault = "embedder" THEN [sys |-> s1, result |-> failure]
    ELSE IF fault = "delete_by_repo" THEN [sys |-> s1, result |-> failure]
    ELSE LET s2 == [s1 EXCEPT !.vstore = DeleteByRepo(s1.vstore, repo_name).vs] IN
    IF fault = "remove_by_repo" \/ RemoveByRepo(s2.index, repo_name).raised
    THEN [sys |-> s2, result |-> failure]
    ELSE LET s3 == [s2 EXCEPT !.index = RemoveByRepo(s2.index, repo_name).ix] IN
    IF fault = "embed_entities" THEN [sys |-> s3, result |-> failure]
    ELSE LET embeddings == EmbedEntities(entities, failed)
             ins == Insert(s3.vstore, entities, embeddings,
                           IF fault = "insert" THEN StopAfterAttempt ELSE 0)
    IN
    IF ins.raised THEN [sys |-> s3, result |-> failure]
    ELSE LET s4 == [s3 EXCEPT !.vstore = ins.vs] IN
    IF fault = "add_entities" THEN [sys |-> s4, result |-> failure]
    ELSE LET s5 == [s4 EXCEPT !.index = AddEntities(s4.index, entities).ix] IN
    IF fault = "save" THEN [sys |-> s5, result |-> failure]
    ELSE [sys |-> [s5 EXCEPT !.disk = Save(s5.index)],
          result |-> IndexResult(TRUE, Len(entities), ins.ret, "")]

\* index_directory without the test of lines 212-218
IndexDirectoryUnchecked(sys, exists, repo_name, entities, fault, failed) ==
    IF fault = "parse"
    THEN [sys |-> sys, result |-> IndexResult(FALSE, 0, 0, "error")]
    ELSE IF entities = <<>>
    THEN [sys |-> sys, result |-> IndexResult(TRUE, 0, 0, "")]
    ELSE RunSteps(sys, repo_name, entities, fault, failed)

\* RepoIndexer.index_directory: entities is what _parse_repo extracts
IndexDirectory(sys, exists, repo_name, entities, fault, failed) ==
    IF ~exists
    THEN [sys |-> sys, result |-> IndexResult(FALSE, 0, 0, "Directory not found")]
    ELSE IF fault = "parse"
    THEN [sys |-> sys, result |-> IndexResult(FALSE, 0, 0, "error")]
    ELSE IF entities = <<>>
    THEN [sys |-> sys, result |-> IndexResult(TRUE, 0, 0, "")]
    ELSE RunSteps(sys, repo_name, entities, fault, failed)

\* RepoIndexer.index_repo: the same run after _clone_or_update
IndexRepo(sys, repo_name, entities, fault, failed) ==
    IF fault = "clone" \/ fault = "parse"
    THEN [sys |-> sys, result |-> IndexResult(FALSE, 0, 0, "error")]
    ELSE IF entities = <<>>
    THEN [sys |-> sys, result |-> IndexResult(TRUE, 0, 0, "")]
    ELSE RunSteps(sys, repo_name, entities, fault, failed)

Faults ==
    {"none", "clone", "parse", "storage", "embedder", "delete_by_repo",
     "insert", "save"}

\* with the calls that raise only when the process is interrupted in them
StepFaults == Faults \cup {"remove_by_repo", "embed_entities", "add_entities"}

(***************************************************************************)
(* HybridSearchEngine (search/engine.py). Weights and boosts are in        *)
(* tenths, semantic scores in hundredths; a fused score is the exact       *)
(* fraction num/den.                                                       *)
(***************************************************************************)
\* str.lower() of the words of the model
Lower(w) ==
    CASE w = "HTTP" -> "http"
      [] w = "API" -> "api"
      [] w = "parseJSON" -> "parsejson"
      [] OTHER -> w

\* the pairs (text, term) with term a substring of text
SubstringPairs ==
    { <<"http", "http">>, <<"request", "request">>,
      <<"handle_request", "request">>, <<"handle_request", "handle_">>,
      <<"send", "send">>, <<"api.py", "api.py">>, <<"api.py", "api">>,
      <<"sessions.py", "sessions.py">>, <<"adapters.py", "adapters.py">>,
      <<"api", "api">>, <<"get", "get">>, <<"get_user", "get">>,
      <<"resend", "send">>, <<"handle_event", "handle_">>,
      <<"test_login", "test_">>, <<"latest_news", "test_">> }

\* term in text
Contains(text, term) == <<text, term>> \in SubstringPairs

\* any(term in query.lower() for term in terms): query is a word sequence
AnyTermIn(query, terms) ==
    \E i \in 1..Len(query) : \E term \in terms : Contains(Lower(query[i]), term)

\* no boost at all: every http_boost is 1.0
HttpBoostOff(entity, query) == 10

\* http_boost of an entity, in tenths
HttpBoost(entity, query) ==
    LET file_path == Lower(entity.file_path)
        name_lower == Lower(entity.name)
    IN
    IF ~AnyTermIn(query, {"http", "request", "api"}) THEN 10
    ELSE IF Contains(file_path, "api.py")
         THEN IF \E term \in {"request", "get", "post", "put", "patch",
                               "delete", "head", "options"} :
                    Contains(name_lower, term)
              THEN 15 ELSE 10
    ELSE IF Contains(file_path, "sessions.py") /\ Contains(name_lower, "send")
         THEN 15
    ELSE IF Contains(file_path, "adapters.py") /\ Contains(name_lower, "send")
         THEN 13
    ELSE IF \E term \in {"handle_", "test_"} : Contains(name_lower, term)
         THEN 7
    ELSE 10

RrfK == 60

\* the adaptive weight with the threshold included: span <= 0.05
AdaptiveWeightAtMost(semantic_results, semantic_weight) ==
    IF semantic_results # <<>>
       /\ LET ss == [i \in 1..Len(semantic_results) |-> semantic_results[i].score]
          IN \A i, j \in 1..Len(ss) : ss[i] - ss[j] <= 5
    THEN 3
    ELSE semantic_weight

\* the weight the fusion uses: 0.3 when the semantic scores span < 0.05
AdaptiveWeight(semantic_results, semantic_weight) ==
    IF semantic_results # <<>>
       /\ LET ss == [i \in 1..Len(semantic_results) |-> semantic_results[i].score]
          IN \A i, j \in 1..Len(ss) : ss[i] - ss[j] < 5
    THEN 3
    ELSE semantic_weight

\* position of id in the scores dict, 0 when absent
KeyRow(entries, id) ==
    IF \E j \in 1..Len(entries) : entries[j].entity.id = id
    THEN CHOOSE j \in 1..Len(entries) : entries[j].entity.id = id
    ELSE 0

\* the first loop: scores[entity.id] = {...} per semantic result.
\* A weighted rrf term w / d is kept as the pair (w, d); 0.0 is (0, 1).
RECURSIVE SemanticEntries(_, _, _, _)
SemanticEntries(semantic_results, weight, rank, entries) ==
    IF rank >= Len(semantic_results) THEN entries
    ELSE LET r == semantic_results[rank + 1]
             e == [entity |-> r.entity, sw |-> weight, sd |-> RrfK + rank + 1,
                   semantic_raw |-> r.score, bw |-> 0, bd |-> 1, bm25_raw |-> 0]
             j == KeyRow(entries, r.entity.id)
         IN SemanticEntries(semantic_results, weight, rank + 1,
                            IF j = 0 THEN Append(entries, e)
                            ELSE [entries EXCEPT ![j] = e])

\* the second loop: the BM25 results update or add their entries
RECURSIVE Bm25Entries(_, _, _, _)
Bm25Entries(bm25_results, weight, rank, entries) ==
    IF rank >= Len(bm25_results) THEN entries
    ELSE LET r == bm25_results[rank + 1]
             j == KeyRow(entries, r.entity.id)
         IN Bm25Entries(bm25_results, weight, rank + 1,
                IF j = 0
                THEN Append(entries,
                        [entity |-> r.entity, sw |-> 0, sd |-> 1,
                         semantic_raw |-> 0, bw |-> weight,
                         bd |-> RrfK + rank + 1, bm25_raw |-> r.score])
                ELSE [entries EXCEPT ![j].bw = weight,
                                     ![j].bd = RrfK + rank + 1,
                                     ![j].bm25_raw = r.score])

\* the combined score without its BM25 term: semantic_rrf * boost
CombinedSemanticOnly(e, query) ==
    [entity |-> e.entity,
     num |-> e.sw * HttpBoost(e.entity, query),
     den |-> e.sd,
     semantic_score |-> e.semantic_raw, bm25_score |-> e.bm25_raw]

\* (semantic_rrf + bm25_rrf) * boost as the fraction num / den
Combined(e, query) ==
    [entity |-> e.entity,
     num |-> (e.sw * e.bd + e.bw * e.sd) * HttpBoost(e.entity, query),
     den |-> e.sd * e.bd,
     semantic_score |-> e.semantic_raw, bm25_score |-> e.bm25_raw]

\* a.score > b.score on fractions: an insertion that passes no equal score
ScoreGreater(a, b) == a.num * b.den > b.num * a.den

\* a.score >= b.score on fractions
ScoreGeq(a, b) == a.num * b.den >= b.num * a.den

\* combined.sort(key=score, reverse=True): stable, descending
RECURSIVE InsertByScore(_, _)
InsertByScore(sorted, item) ==
    IF sorted = <<>> THEN <<item>>
    ELSE IF ScoreGeq(Head(sorted), item)
         THEN <<Head(sorted)>> \o InsertByScore(Tail(sorted), item)
         ELSE <<item>> \o sorted

RECURSIVE SortByScore(_)
SortByScore(items) ==
    IF items = <<>> THEN <<>>
    ELSE InsertByScore(SortByScore(SubSeq(items, 1, Len(items) - 1)),
                       items[Len(items)])

\* the scores dict of _reciprocal_rank_fusion after its two loops, in
\* insertion order; bm25_weight = 1 - semantic_weight
FusionScores(semantic_results, bm25_results, semantic_weight) ==
    LET w == AdaptiveWeight(semantic_results, semantic_weight)
    IN Bm25Entries(bm25_results, 10 - w, 0,
                   SemanticEntries(semantic_results, w, 0, <<>>))

\* HybridSearchEngine._reciprocal_rank_fusion
ReciprocalRankFusion(semantic_results, bm25_results, semantic_weight, query) ==
    LET entries == FusionScores(semantic_results, bm25_results, semantic_weight)
    IN SortByScore([i \in 1..Len(entries) |-> Combined(entries[i], query)])

\* semantic_weight: float = 0.7 of HybridSearchEngine.__init__, in tenths
DefaultSemanticWeight == 7

\* weight = semantic_weight if semantic_weight is not None else
\* self.semantic_weight; the optional argument is <<>> (None) or <<w>>
ResolveWeight(semantic_weight, default) ==
    IF semantic_weight = <<>> THEN default ELSE semantic_weight[1]

\* SearchEngine.search: the semantic results as SearchResult records
SemanticSearch(vs, ranking, scores, limit, filters) ==
    LET results == VectorSearch(vs, ranking, scores, limit, filters)
    IN [i \in 1..Len(results) |->
          [entity |-> results[i].entity, num |-> results[i].score, den |-> 1,
           semantic_score |-> results[i].score, bm25_score |-> 0]]

\* HybridSearchEngine.search over the store vs and the engine's index ix
HybridSearch(vs, ix, query, limit, filters, use_hybrid, weight, ranking, scores) ==
    IF ~use_hybrid THEN SemanticSearch(vs, ranking, scores, limit, filters)
    ELSE LET semantic_results == VectorSearch(vs, ranking, scores, limit * 2, filters)
             bm25_results == Search(ix, query, limit * 2, filters).items
         IN Prefix(ReciprocalRankFusion(semantic_results, bm25_results,
                                        weight, query),
                   limit)

\* the faults of the services a query goes through: the model call of the
\* embedder, get_collections, a collection that is not there, the search
\* call of the client
QueryFaults ==
    {"none", "embedder", "get_collections", "no_collection", "search_call"}

\* QdrantStore.search with its exception handling: [raised, items]. A
\* failed collection check and a missing collection return []; the search
\* call is retried through the other APIs only for AttributeError and
\* TypeError, any other exception of it leaves the method.
QdrantSearch(vs, ranking, scores, limit, filters, fault) ==
    IF fault \in {"get_collections", "no_collection"}
    THEN [raised |-> FALSE, items |-> <<>>]
    ELSE IF fault = "search_call"
    THEN [raised |-> TRUE, items |-> <<>>]
    ELSE [raised |-> FALSE, items |-> VectorSearch(vs, ranking, scores, limit, filters)]

\* HybridSearchEngine.search with the faults: [raised, results]. embed_text
\* answers a failed model call with the zero vector, for which the backend
\* returns the hits in some order (ranking, scores); nothing in search or in
\* SearchEngine.search catches an exception.
EngineSearch(vs, ix, query, limit, filters, use_hybrid, weight, ranking, scores, fault) ==
    IF ~use_hybrid
    THEN LET sem == QdrantSearch(vs, ranking, scores, limit, filters, fault)
         IN [raised |-> sem.raised,
             results |-> [i \in 1..Len(sem.items) |->
                            [entity |-> sem.items[i].entity,
                             num |-> sem.items[i].score, den |-> 1,
                             semantic_score |-> sem.items[i].score,
                             bm25_score |-> 0]]]
    ELSE LET sem == QdrantSearch(vs, ranking, scores, limit * 2, filters, fault)
             bm25 == Search(ix, query, limit * 2, filters)
         IN IF sem.raised \/ bm25.raised
            THEN [raised |-> TRUE, results |-> <<>>]
            ELSE [raised |-> FALSE,
                  results |-> Prefix(ReciprocalRankFusion(sem.items, bm25.items,
                                                         weight, query),
                                     limit)]

(***************************************************************************)
(* IndexingWorker._process_message (queue/worker.py). A message body is    *)
(* described by how far the parsing of it gets.                            *)
(***************************************************************************)
\* body: [utf8, json, object, keys, repo_name]
Body(utf8, json, object, keys, repo_name) ==
    [utf8 |-> utf8, json |-> json, object |-> object, keys |-> keys,
     repo_name |-> repo_name]

RequiredJobFields == {"repo_url", "repo_name"}

\* json.loads(body.decode('utf-8')) and IndexingJob(**job_data): the
\* exception raised, "" when the job is built
ParseJob(body) ==
    IF ~body.utf8 THEN "UnicodeDecodeError"
    ELSE IF ~body.json THEN "JSONDecodeError"
    ELSE IF ~body.object THEN "TypeError"
    ELSE IF ~(RequiredJobFields \subseteq body.keys) THEN "ValidationError"
    ELSE ""

\* the settlement for an exception that leaves the try block
OnException(exception) ==
    IF exception = "JSONDecodeError"
    THEN [call |-> "basic_reject", requeue |-> FALSE]
    ELSE [call |-> "basic_reject", requeue |-> TRUE]

\* the settlement for the handler's outcome: "true", "false" or "raise"
OnHandled(outcome) ==
    IF outcome = "raise" THEN OnException("Exception")
    ELSE IF outcome = "true" THEN [call |-> "basic_ack", requeue |-> FALSE]
    ELSE [call |-> "basic_reject", requeue |-> FALSE]

\* _process_message: the channel call made for the delivery; outcome is
\* what the handler does with the job when it is reached
ProcessMessage(body, outcome) ==
    IF ParseJob(body) # "" THEN OnException(ParseJob(body))
    ELSE OnHandled(outcome)

\* the channel of a delivery: "open", "closed" (every call on it raises) or
\* "flaky" (the first call raises, the next goes through)
ChannelRaises(channel, k) ==
    channel = "closed" \/ (channel = "flaky" /\ k = 1)

\* _process_message on a channel whose calls may raise: the channel calls it
\* issues, in order, and whether an exception leaves it. basic_ack and the
\* basic_reject of the else branch are inside the try block, so an exception
\* of theirs is caught by `except Exception`, which calls basic_reject again.
ProcessMessageCalls(body, outcome, channel) ==
    LET first == ProcessMessage(body, outcome)
        inTry == ParseJob(body) = "" /\ outcome # "raise"
    IN IF inTry /\ ChannelRaises(channel, 1)
       THEN [calls |-> <<first, OnException("Exception")>>,
             raised |-> ChannelRaises(channel, 2)]
       ELSE [calls |-> <<first>>, raised |-> ChannelRaises(channel, 1)]

\* the handler of create_indexing_handler: result.success of index_repo
\* (index_repo catches its own exceptions, so the except is never taken)
DefaultHandlerOutcome(result) == IF result.success THEN "true" ELSE "false"

(***************************************************************************)
(* State.                                                                  *)
(***************************************************************************)
VARIABLES
    index,      \* the BM25Index instance (the indexer's, in the pipeline)
    disk,       \* the file bm25_index.pkl
    last,       \* the last call: its name, arguments and return value
    vstore,     \* the collection of the vector store
    ready,      \* RepoIndexer._storage_initialized
    engine,     \* the BM25Index of the HybridSearchEngine
    runs,       \* the number of pipeline runs so far
    second,     \* a second RepoIndexer on the same directory: its BM25Index
                \* and its _storage_initialized
    handler,    \* IndexingWorker._job_handler: "none", "custom" or "default"
    queue,      \* the messages waiting in the job queue
    dlq,        \* the messages in the dead-letter queue
    acked,      \* the messages acknowledged
    delivery,   \* the last delivery and how the worker settled it
    writer,     \* the writer thread on the index: its call and position
    reader      \* the reader thread on the index: its search and position

bm25Vars == <<index, disk>>
pipeVars == <<vstore, ready, engine, runs, second>>
workerVars == <<handler, queue, dlq, acked, delivery>>
threadVars == <<writer, reader>>
vars == <<index, disk, last, vstore, ready, engine, runs, second, handler, queue, dlq, acked,
          delivery, writer, reader>>

\* what callers pass
Batches == SeqUpTo(EntityPool, MaxBatch)

Queries ==
    { <<"send", "HTTP", "request">>, <<"parse_json">>, <<"x", "?">> }

Limits == 1..MaxLimit

FilterSets ==
    { NoFilters,
      [language |-> "python"],
      [repo_name |-> "a"],
      [language |-> "javascript", entity_type |-> "function"] }

NoResult == IndexResult(FALSE, 0, 0, "")

\* what a direct call of insert was given and how it went
NoInsert ==
    [entities |-> 0, embeddings |-> 0, failing |-> 0, raised |-> FALSE,
     error |-> "", attempts |-> 0, upserts |-> 0, waits |-> 0]

\* what a call of the rank fusion was given, its scores dict and its ranking
NoFusion ==
    [semantic |-> <<>>, bm25 |-> <<>>, semantic_weight |-> <<>>,
     scores |-> <<>>, ranked |-> <<>>]

\* what parse_content was given (the parser, whether tree-sitter loaded, the
\* source as its syntax tree) and the entities it returned
NoParse ==
    [language |-> "", initialized |-> FALSE,
     tree |-> [type |-> "module", text |-> "", children |-> <<>>],
     entities |-> <<>>]

NoCall ==
    [op |-> "none", n |-> 0, repo |-> "", query |-> <<>>, limit |-> 0,
     filters |-> NoFilters, ret |-> 0, result |-> NoResult, results |-> <<>>,
     insert |-> NoInsert, fault |-> "", raised |-> FALSE, failed |-> {},
     before |-> "", fusion |-> NoFusion, parse |-> NoParse]

NoDelivery ==
    [tag |-> 0, message |-> [id |-> 0, body |-> <<>>], fault |-> "",
     calls |-> <<>>]

\* RepoIndexer.__init__: an empty BM25Index, no storage attached yet
NoIndexer == [index |-> EmptyIndex, ready |-> FALSE]

IdleWriter == [pc |-> "idle"]

IdleReader == [pc |-> "idle"]

Init ==
    /\ index = EmptyIndex
    /\ disk = NoFile
    /\ last = NoCall
    /\ vstore = EmptyStore
    /\ ready = FALSE
    /\ engine = EmptyIndex
    /\ runs = 0
    /\ second = NoIndexer
    /\ handler = "none"
    /\ queue = {}
    /\ dlq = {}
    /\ acked = {}
    /\ delivery = NoDelivery
    /\ writer = IdleWriter
    /\ reader = IdleReader

(***************************************************************************)
(* The calls on the BM25Index.                                             *)
(***************************************************************************)
DoAdd(batch) ==
    /\ Len(index.entities) + Len(batch) <= MaxEntities
    /\ index' = AddEntities(index, batch).ix
    /\ last' = [NoCall EXCEPT !.op = "add_entities", !.n = Len(batch),
                              !.ret = AddEntities(index, batch).ret]
    /\ UNCHANGED <<disk, pipeVars, workerVars, threadVars>>

DoRemove(repo_name) ==
    /\ index' = RemoveByRepo(index, repo_name).ix
    /\ last' = [NoCall EXCEPT !.op = "remove_by_repo", !.repo = repo_name,
                              !.ret = RemoveByRepo(index, repo_name).ret]
    /\ UNCHANGED <<disk, pipeVars, workerVars, threadVars>>

DoClear ==
    /\ index' = Clear(index)
    /\ last' = [NoCall EXCEPT !.op = "clear"]
    /\ UNCHANGED <<disk, pipeVars, workerVars, threadVars>>

DoSave ==
    /\ disk' = Save(index)
    /\ last' = [NoCall EXCEPT !.op = "save"]
    /\ UNCHANGED <<index, pipeVars, workerVars, threadVars>>

DoLoad ==
    /\ index' = Load(index, disk).ix
    /\ last' = [NoCall EXCEPT !.op = "load",
                              !.ret = IF Load(index, disk).ret THEN 1 ELSE 0]
    /\ UNCHANGED <<disk, pipeVars, workerVars, threadVars>>

Next ==
    \/ \E batch \in Batches : DoAdd(batch)
    \/ \E r \in RepoNames : DoRemove(r)
    \/ DoClear
    \/ DoSave
    \/ DoLoad

Spec == Init /\ [][Next]_vars

(***************************************************************************)
(* The index file damaged or written by something else than save().        *)
(***************************************************************************)
\* a record restricted to some of its keys
Restrict(rec, keys) == [k \in keys |-> rec[k]]

\* the dict of a saved index of two entities
SampleData ==
    LET es == CHOOSE b \in [1..2 -> EntityPool] : b[1].id = 1 /\ b[2].id = 2
    IN Save(AddEntities(EmptyIndex, es).ix).data

MalformedFiles ==
    { GarbageFile,
      PickleFile(Restrict(SampleData, {"corpus", "entity_ids"})),
      PickleFile(Restrict(SampleData, {"entities"})),
      PickleFile(Restrict(SampleData, {"entities", "corpus"})),
      PickleFile([SampleData EXCEPT
                    !.entities = <<Restrict(SampleData.entities[1], {"id", "name"})>>]),
      PickleFile([SampleData EXCEPT !.corpus = <<SampleData.corpus[1]>>]) }

DoCorrupt(file) ==
    /\ disk' = file
    /\ last' = [NoCall EXCEPT !.op = "corrupt"]
    /\ UNCHANGED <<index, pipeVars, workerVars, threadVars>>

NextCorrupt ==
    \/ Next
    \/ \E file \in MalformedFiles : DoCorrupt(file)

SpecCorrupt == Init /\ [][NextCorrupt]_vars

(***************************************************************************)
(* The indexing pipeline: runs of a RepoIndexer over the two indices.      *)
(***************************************************************************)
\* what the extractors find in the files of a directory, in walk order; id
\* and repo_name are set by the run
Template(i) ==
    IF i % 2 = 1
    THEN CodeEntity(0, "send", "METHOD", "PYTHON", "sessions.py", "",
                    <<"def", "send">>, <<"send", "HTTP", "request">>)
    ELSE CodeEntity(0, "parseJSON", "FUNCTION", "JAVASCRIPT", "api.py", "",
                    <<"function", "parseJSON">>, <<"parse_json", "request">>)

\* the directories: the first k files, k up to MaxBatch
Contents == {[i \in 1..k |-> Template(i)] : k \in 0..MaxBatch}

DiskIds ==
    IF disk.kind = "pickle"
    THEN {disk.data.entities[i]["id"] : i \in 1..Len(disk.data.entities)}
    ELSE {}

\* the ids some copy of an entity still carries
UsedIds ==
    DOMAIN vstore \cup {index.entities[i].id : i \in 1..Len(index.entities)}
                  \cup {engine.entities[i].id : i \in 1..Len(engine.entities)}
                  \cup {second.index.entities[i].id :
                            i \in 1..Len(second.index.entities)}
                  \cup DiskIds

\* uuid4(): n ids that no entity carries
RECURSIVE FreshIds(_, _, _)
FreshIds(used, n, from) ==
    IF n = 0 THEN <<>>
    ELSE IF from \in used THEN FreshIds(used, n, from + 1)
    ELSE <<from>> \o FreshIds(used, n - 1, from + 1)

\* _parse_repo: the entities of the files, each with a new id
ParseRepo(contents, repo_name, used) ==
    [i \in 1..Len(contents) |->
        [contents[i] EXCEPT !.id = FreshIds(used, Len(contents), 1)[i],
                            !.repo_name = repo_name]]

Sys == [index |-> index, disk |-> disk, vstore |-> vstore, ready |-> ready]

FailedBatches(contents) == SUBSET {BatchOf(i) : i \in 1..Len(contents)}

DoIndexDirectory(repo_name, contents, fault, failed) ==
    LET run == IndexDirectory(Sys, fault # "missing", repo_name,
                              ParseRepo(contents, repo_name, UsedIds),
                              fault, failed)
    IN /\ runs < MaxRuns
       /\ runs' = runs + 1
       /\ index' = run.sys.index
       /\ disk' = run.sys.disk
       /\ vstore' = run.sys.vstore
       /\ ready' = run.sys.ready
       /\ last' = [NoCall EXCEPT !.op = "index_directory", !.repo = repo_name,
                                 !.result = run.result]
       /\ UNCHANGED <<engine, second, workerVars, threadVars>>

DoIndexRepo(repo_name, contents, fault, failed) ==
    LET run == IndexRepo(Sys, repo_name,
                         ParseRepo(contents, repo_name, UsedIds), fault, failed)
    IN /\ runs < MaxRuns
       /\ runs' = runs + 1
       /\ index' = run.sys.index
       /\ disk' = run.sys.disk
       /\ vstore' = run.sys.vstore
       /\ ready' = run.sys.ready
       /\ last' = [NoCall EXCEPT !.op = "index_repo", !.repo = repo_name,
                                 !.result = run.result]
       /\ UNCHANGED <<engine, second, workerVars, threadVars>>

\* a new process: RepoIndexer() with no storage attached yet
NewIndexer ==
    /\ ready
    /\ ready' = FALSE
    /\ index' = EmptyIndex
    /\ last' = [NoCall EXCEPT !.op = "new_indexer"]
    /\ UNCHANGED <<disk, vstore, engine, second, runs, workerVars, threadVars>>

\* HybridSearchEngine(): the constructor loads the index file
NewEngine ==
    /\ engine' = Load(EmptyIndex, disk).ix
    /\ last' = [NoCall EXCEPT !.op = "new_engine"]
    /\ UNCHANGED <<index, disk, vstore, ready, runs, second, workerVars, threadVars>>

NextPipeline ==
    \/ \E repo_name \in RepoNames, contents \in Contents,
          fault \in (Faults \ {"clone"}) \cup {"missing"} :
            \E failed \in FailedBatches(contents) :
                DoIndexDirectory(repo_name, contents, fault, failed)
    \/ \E repo_name \in RepoNames, contents \in Contents, fault \in Faults :
            \E failed \in FailedBatches(contents) :
                DoIndexRepo(repo_name, contents, fault, failed)
    \/ NewIndexer

SpecPipeline == Init /\ [][NextPipeline]_vars

(***************************************************************************)
(* Runs of the pipeline during which a step may fail, with the fault and   *)
(* the failed embedding batches of the run on record.                      *)
(***************************************************************************)
\* the state and the record after a run; before is the fault of the run
\* that came just before it, when that was a run of the same repository
Ran(op, run, repo_name, contents, fault, failed) ==
    /\ runs < MaxRuns
    /\ runs' = runs + 1
    /\ index' = run.sys.index
    /\ disk' = run.sys.disk
    /\ vstore' = run.sys.vstore
    /\ ready' = run.sys.ready
    /\ last' = [NoCall EXCEPT !.op = op, !.repo = repo_name,
                              !.fault = fault, !.failed = failed,
                              !.before = IF last.repo = repo_name
                                         THEN last.fault ELSE "",
                              !.result = run.result]
    /\ UNCHANGED <<engine, second, workerVars, threadVars>>

RunIndexDirectory(repo_name, contents, fault, failed) ==
    Ran("index_directory",
        IndexDirectory(Sys, fault # "missing", repo_name,
                       ParseRepo(contents, repo_name, UsedIds), fault, failed),
        repo_name, contents, fault, failed)

RunIndexRepo(repo_name, contents, fault, failed) ==
    Ran("index_repo",
        IndexRepo(Sys, repo_name, ParseRepo(contents, repo_name, UsedIds),
                  fault, failed),
        repo_name, contents, fault, failed)

\* the faults of a step that comes before the files are read
EarlyFaults == {"missing", "clone", "parse"}

\* the directories a run with this fault gets to read: a step after the
\* parsing is reached, and fails, only when entities were extracted
ContentsFor(fault) ==
    IF fault \in EarlyFaults THEN {<<>>}
    ELSE IF fault = "none" THEN Contents
    ELSE Contents \ {<<>>}

\* the embedding batches that may fail in a run that gets to embed
FailedFor(contents, fault) ==
    IF fault \in {"none", "insert", "add_entities", "save"}
    THEN FailedBatches(contents)
    ELSE {{}}

\* the process ends and a new RepoIndexer() takes over; the record of the
\* run before stays
RestartIndexer ==
    /\ ready
    /\ ready' = FALSE
    /\ index' = EmptyIndex
    /\ last' = [NoCall EXCEPT !.op = "new_indexer", !.repo = last.repo,
                              !.fault = last.fault]
    /\ UNCHANGED <<disk, vstore, engine, second, runs, workerVars, threadVars>>

NextRuns ==
    \/ \E repo_name \in RepoNames, fault \in (StepFaults \ {"clone"}) \cup {"missing"} :
            \E contents \in ContentsFor(fault) :
                \E failed \in FailedFor(contents, fault) :
                    RunIndexDirectory(repo_name, contents, fault, failed)
    \/ \E repo_name \in RepoNames, fault \in StepFaults :
            \E contents \in ContentsFor(fault) :
                \E failed \in FailedFor(contents, fault) :
                    RunIndexRepo(repo_name, contents, fault, failed)
    \/ RestartIndexer

SpecRuns == Init /\ [][NextRuns]_vars

(***************************************************************************)
(* Two RepoIndexer instances (two workers, each with the indexer of its    *)
(* create_indexing_handler) on the same index directory and the same       *)
(* vector store: indexer 1 holds index and ready, indexer 2 holds second.  *)
(***************************************************************************)
Indexers == {1, 2}

\* what indexer k works on
SysOf(k) ==
    IF k = 1 THEN Sys
    ELSE [index |-> second.index, disk |-> disk, vstore |-> vstore,
          ready |-> second.ready]

\* the state after indexer k worked: sys is what it leaves
Worked(k, sys) ==
    /\ disk' = sys.disk
    /\ vstore' = sys.vstore
    /\ IF k = 1
       THEN index' = sys.index /\ ready' = sys.ready /\ second' = second
       ELSE /\ second' = [index |-> sys.index, ready |-> sys.ready]
            /\ index' = index /\ ready' = ready

\* a run of indexer k gets to _ensure_storage (line 145) and loads the file;
\* the rest of the run follows in a later step
BeginRun(k) ==
    /\ ~SysOf(k).ready
    /\ runs < MaxRuns
    /\ Worked(k, EnsureStorage(SysOf(k)))
    /\ last' = [NoCall EXCEPT !.op = "ensure_storage", !.n = k]
    /\ UNCHANGED <<engine, runs, workerVars, threadVars>>

\* index_repo of indexer k, from the start or from where BeginRun left it
WorkerRun(k, repo_name, contents) ==
    LET run == IndexRepo(SysOf(k), repo_name,
                         ParseRepo(contents, repo_name, UsedIds), "none", {})
    IN /\ runs < MaxRuns
       /\ runs' = runs + 1
       /\ Worked(k, run.sys)
       /\ last' = [NoCall EXCEPT !.op = "index_repo", !.n = k,
                                 !.repo = repo_name, !.result = run.result]
       /\ UNCHANGED <<engine, workerVars, threadVars>>

NextIndexers ==
    \/ \E k \in Indexers : BeginRun(k)
    \/ \E k \in Indexers, repo_name \in RepoNames, contents \in Contents :
            WorkerRun(k, repo_name, contents)

SpecIndexers == Init /\ [][NextIndexers]_vars

(***************************************************************************)
(* The vector store called directly, and through a run of the pipeline.    *)
(* runs counts the calls; MaxRuns of them are made.                        *)
(***************************************************************************)
\* entities of two repositories
ThreadEntities == {e \in EntityPool : e.name \in {"send", "parseJSON"}}

Vectors == {"unit", "zero"}

\* up to MaxBatch vectors of one kind
Embeddings == {[i \in 1..k |-> v] : k \in 0..MaxBatch, v \in Vectors}

\* the backend fails the first failing upsert calls of an insert
Failing == 0..StopAfterAttempt

DoInsert(entities, embeddings, failing) ==
    LET ins == Insert(vstore, entities, embeddings, failing) IN
    /\ runs < MaxRuns
    /\ runs' = runs + 1
    /\ vstore' = ins.vs
    /\ last' = [NoCall EXCEPT
                  !.op = "insert", !.ret = ins.ret,
                  !.insert = [entities |-> Len(entities),
                              embeddings |-> Len(embeddings),
                              failing |-> failing, raised |-> ins.raised,
                              error |-> ins.error, attempts |-> ins.attempts,
                              upserts |-> ins.upserts, waits |-> ins.waits]]
    /\ UNCHANGED <<bm25Vars, ready, engine, second, workerVars, threadVars>>

DoDeleteByRepo(repo_name) ==
    /\ runs < MaxRuns
    /\ runs' = runs + 1
    /\ vstore' = DeleteByRepo(vstore, repo_name).vs
    /\ last' = [NoCall EXCEPT !.op = "delete_by_repo", !.repo = repo_name,
                              !.ret = DeleteByRepo(vstore, repo_name).ret]
    /\ UNCHANGED <<bm25Vars, ready, engine, second, workerVars, threadVars>>

StoreFaults == {"none", "insert"}

\* the entities a caller hands to insert directly
StoreBatches == SeqUpTo(ThreadEntities, MaxBatch)

NextStore ==
    \/ \E entities \in StoreBatches, embeddings \in Embeddings, failing \in Failing :
            DoInsert(entities, embeddings, failing)
    \/ \E repo_name \in RepoNames : DoDeleteByRepo(repo_name)
    \/ \E repo_name \in RepoNames, contents \in Contents, fault \in StoreFaults :
            DoIndexDirectory(repo_name, contents, fault, {})

SpecStore == Init /\ [][NextStore]_vars

(***************************************************************************)
(* Properties of the BM25 index.                                           *)
(***************************************************************************)
\* the entities of es that do not belong to repo r, in order
NotOfRepo(es, r) == SelectSeq(es, LAMBDA e : e.repo_name # r)

OfRepo(es, r) == SelectSeq(es, LAMBDA e : e.repo_name = r)

\* every search the model issues on ix
AllSearches(ix) ==
    {Search(ix, q, l, f) : q \in Queries, l \in Limits, f \in FilterSets}

\* the rows of the index are the tokenized documents of its entities and
\* the id-map gives each entity's row
RowsOf(es) ==
    [entities |-> es,
     corpus |-> [i \in 1..Len(es) |-> Tokenize(EntityToDocument(es[i]))],
     entity_ids |-> [id \in {es[i].id : i \in 1..Len(es)} |->
                        (CHOOSE i \in 1..Len(es) : es[i].id = id) - 1]]

SameRows(ix, rows) ==
    /\ ix.entities = rows.entities
    /\ ix.corpus = rows.corpus
    /\ ix.entity_ids = rows.entity_ids

\* C6: a remove_by_repo(r) step removes exactly the entities of r: it
\* returns their number, count() drops by it, the other entities keep their
\* relative order (with their corpus rows and id-map entries), no search
\* afterwards returns an entity of r, and a call that matches nothing
\* returns 0 and changes nothing.
RemoveStepOk(r) ==
    /\ SameRows(index', RowsOf(NotOfRepo(index.entities, r)))
    /\ last'.ret = Len(OfRepo(index.entities, r))
    /\ Count(index') = Count(index) - last'.ret
    /\ \A res \in AllSearches(index') :
          /\ ~res.raised
          /\ \A i \in 1..Len(res.items) : res.items[i].entity.repo_name # r
    /\ (OfRepo(index.entities, r) = <<>> => last'.ret = 0 /\ index' = index)

C6_RemoveByRepoExact ==
    [][\A r \in RepoNames :
          (last'.op = "remove_by_repo" /\ last'.repo = r) => RemoveStepOk(r)]_vars

\* a removal took two entities out and left one that searches still find
C6_Witness ==
    /\ last.op = "remove_by_repo"
    /\ last.ret = 2
    /\ Count(index) = 1
    /\ \E res \in AllSearches(index) : Len(res.items) = 1

\* the entities of the batch that add_entities stores: the first occurrence
\* of every id that is not in seen
RECURSIVE FirstNew(_, _)
FirstNew(batch, seen) ==
    IF batch = <<>> THEN <<>>
    ELSE IF Head(batch).id \in seen THEN FirstNew(Tail(batch), seen)
    ELSE <<Head(batch)>> \o FirstNew(Tail(batch), seen \cup {Head(batch).id})

IdsOf(es) == {es[i].id : i \in 1..Len(es)}

UniqueIds(ix) ==
    \A i, j \in 1..Len(ix.entities) :
        ix.entities[i].id = ix.entities[j].id => i = j

\* C7: add_entities skips an entity whose id is stored or came earlier in
\* the call, does not count it, and leaves the stored rows as they were;
\* each id is stored at most once.
AddStepOk(batch) ==
    LET new == FirstNew(batch, IdsOf(index.entities)) IN
    /\ last'.ret = Len(new)
    /\ index'.entities = index.entities \o new
    /\ SubSeq(index'.corpus, 1, Len(index.corpus)) = index.corpus
    /\ \A id \in DOMAIN index.entity_ids :
          id \in DOMAIN index'.entity_ids
             /\ index'.entity_ids[id] = index.entity_ids[id]
    /\ Len(index'.corpus) = Len(index'.entities)

C7_AddIdempotentOnId ==
    /\ []UniqueIds(index)
    /\ [][\A batch \in Batches : DoAdd(batch) => AddStepOk(batch)]_vars

\* a call stored one entity and skipped another whose id was taken
C7_Witness ==
    /\ last.op = "add_entities"
    /\ last.n = 2
    /\ last.ret = 1
    /\ Count(index) >= 2

\* C9: after save(), load() on a fresh BM25Index over the same directory
\* succeeds and yields the same entities in the same order, the same corpus
\* and id-map, and the same ordered results for every search.
C9_SaveLoadRoundTrip ==
    last.op = "save" =>
        LET fresh == Load(EmptyIndex, disk) IN
        /\ fresh.ret
        /\ fresh.ix.entities = index.entities
        /\ fresh.ix.corpus = index.corpus
        /\ fresh.ix.entity_ids = index.entity_ids
        /\ \A q \in Queries, l \in Limits, f \in FilterSets :
              Search(fresh.ix, q, l, f) = Search(index, q, l, f)

\* an index of two entities was saved and a search on it finds both
C9_Witness ==
    /\ last.op = "save"
    /\ Count(index) = 2
    /\ \E res \in AllSearches(index) : Len(res.items) = 2

IndexIsEmpty(ix) ==
    /\ Count(ix) = 0
    /\ ix.entities = <<>>
    /\ ix.corpus = <<>>
    /\ ix.entity_ids = <<>>
    /\ \A res \in AllSearches(ix) : ~res.raised /\ res.items = <<>>

\* C10: load() of a missing or malformed file into a fresh index leaves the
\* index empty: count() is 0, every search returns nothing, and the entity
\* list, corpus and id-map are empty.
C10_LoadMalformedYieldsEmpty ==
    [][(/\ last'.op = "load"
        /\ index = EmptyIndex
        /\ disk = NoFile \/ disk \in MalformedFiles) => IndexIsEmpty(index')]_vars

(***************************************************************************)
(* Searching what the pipeline has indexed: BM25Index.search on the        *)
(* indexer's index and HybridSearchEngine.search on the vector store and   *)
(* the engine's index.                                                     *)
(***************************************************************************)
SearchFilters ==
    { NoFilters,
      [repo_name |-> "a"],
      [entity_type |-> "method"],
      [language |-> "python", entity_type |-> "function"],
      [language |-> "javascript", entity_type |-> "function", repo_name |-> "b"] }

\* no filter, and the filter on one repository
ThreadFilters == {NoFilters, [repo_name |-> "a"]}

\* semantic_weight, in tenths: the default and an override
Weights == {7, 5}

\* the ids of S in ascending order
RECURSIVE Ascending(_)
Ascending(S) ==
    IF S = {} THEN <<>>
    ELSE LET m == CHOOSE x \in S : \A y \in S : x <= y
         IN <<m>> \o Ascending(S \ {m})

Reverse(s) == [i \in 1..Len(s) |-> s[Len(s) + 1 - i]]

\* the orders by cosine similarity the backend may find for a query
Rankings(vs) == {Ascending(DOMAIN vs), Reverse(Ascending(DOMAIN vs))}

\* the similarities of the hits, best first, in hundredths: all alike, or
\* 0.05 apart
ScoreProfiles(vs) ==
    { [i \in 1..Cardinality(DOMAIN vs) |-> 90],
      [i \in 1..Cardinality(DOMAIN vs) |-> 95 - 5 * i] }

\* the two repositories that get searched: "a" has MaxBatch entities, "b" one
Checkout(repo_name) ==
    IF repo_name = "a" THEN [i \in 1..MaxBatch |-> Template(i)]
    ELSE <<Template(2)>>

DoSearch(query, limit, filters) ==
    /\ last' = [NoCall EXCEPT !.op = "search", !.limit = limit,
                              !.ret = Len(Search(index, query, limit, filters).items)]
    /\ UNCHANGED <<bm25Vars, pipeVars, workerVars, threadVars>>

DoHybridSearch(query, limit, filters, use_hybrid, weight, ranking, scores) ==
    /\ last' = [NoCall EXCEPT
                    !.op = "hybrid_search", !.limit = limit,
                    !.ret = Len(HybridSearch(vstore, engine, query, limit, filters,
                                             use_hybrid, weight, ranking, scores))]
    /\ UNCHANGED <<bm25Vars, pipeVars, workerVars, threadVars>>

NextSearch ==
    \/ \E repo_name \in RepoNames :
            DoIndexRepo(repo_name, Checkout(repo_name), "none", {})
    \/ NewEngine
    \/ \E query \in Queries, limit \in Limits, filters \in SearchFilters :
            DoSearch(query, limit, filters)
    \/ \E query \in Queries, limit \in Limits, filters \in SearchFilters,
          use_hybrid \in BOOLEAN, weight \in Weights :
            \E ranking \in Rankings(vstore), scores \in ScoreProfiles(vstore) :
                DoHybridSearch(query, limit, filters, use_hybrid, weight,
                               ranking, scores)

SpecSearch == Init /\ [][NextSearch]_vars

(***************************************************************************)
(* A re-index taken step by step, with queries of an engine in between.    *)
(* writer holds the run: its step, the repository, the entities extracted  *)
(* and, once computed, the embeddings. The engine is the one every entry   *)
(* point builds: HybridSearchEngine() with a BM25Index of its own, loaded  *)
(* from the index file by the constructor.                                 *)
(***************************************************************************)
\* lines 124-147 of index_repo: clone, parse, the return for no entities,
\* _ensure_storage and _ensure_embedder
StartReindex(repo_name, contents) ==
    /\ writer.pc = "idle"
    /\ runs < MaxRuns
    /\ contents # <<>>
    /\ index' = EnsureStorage(Sys).index
    /\ ready' = TRUE
    /\ writer' = [pc |-> "run", step |-> "delete_by_repo", repo_name |-> repo_name,
                  entities |-> ParseRepo(contents, repo_name, UsedIds),
                  embeddings |-> <<>>]
    /\ UNCHANGED <<disk, last, vstore, engine, second, runs, workerVars, reader>>

\* one statement of lines 149-162
ReindexStep ==
    /\ writer.pc = "run"
    /\ \/ /\ writer.step = "delete_by_repo"
          /\ vstore' = DeleteByRepo(vstore, writer.repo_name).vs
          /\ writer' = [writer EXCEPT !.step = "remove_by_repo"]
          /\ UNCHANGED <<index, disk, runs, last>>
       \/ /\ writer.step = "remove_by_repo"
          /\ index' = RemoveByRepo(index, writer.repo_name).ix
          /\ writer' = [writer EXCEPT !.step = "embed_entities"]
          /\ UNCHANGED <<vstore, disk, runs, last>>
       \/ /\ writer.step = "embed_entities"
          /\ writer' = [writer EXCEPT !.step = "insert",
                                      !.embeddings = EmbedEntities(writer.entities, {})]
          /\ UNCHANGED <<vstore, index, disk, runs, last>>
       \/ /\ writer.step = "insert"
          /\ vstore' = Insert(vstore, writer.entities, writer.embeddings, 0).vs
          /\ writer' = [writer EXCEPT !.step = "add_entities"]
          /\ UNCHANGED <<index, disk, runs, last>>
       \/ /\ writer.step = "add_entities"
          /\ index' = AddEntities(index, writer.entities).ix
          /\ writer' = [writer EXCEPT !.step = "save"]
          /\ UNCHANGED <<vstore, disk, runs, last>>
       \/ /\ writer.step = "save"
          /\ disk' = Save(index)
          /\ writer' = IdleWriter
          /\ runs' = runs + 1
          /\ last' = [NoCall EXCEPT
                        !.op = "index_repo", !.repo = writer.repo_name,
                        !.result = IndexResult(TRUE, Len(writer.entities),
                                               Len(writer.entities), "")]
          /\ UNCHANGED <<vstore, index>>
    /\ UNCHANGED <<ready, engine, second, workerVars, reader>>

\* the (id, repository) of each result, in order
ResultRows(results) ==
    [i \in 1..Len(results) |->
        [id |-> results[i].entity.id, repo_name |-> results[i].entity.repo_name]]

\* a query of the engine; results keeps the entities returned
DoQuery(query, limit, filters, use_hybrid, ranking, scores) ==
    LET call == EngineSearch(vstore, engine, query, limit, filters, use_hybrid,
                             7, ranking, scores, "none")
    IN /\ last' = [NoCall EXCEPT
                     !.op = IF use_hybrid THEN "hybrid_search" ELSE "semantic_search",
                     !.limit = limit, !.raised = call.raised,
                     !.ret = Len(call.results),
                     !.results = ResultRows(call.results)]
       /\ UNCHANGED <<bm25Vars, pipeVars, workerVars, threadVars>>

\* the engine is built, at any time
BuildEngine ==
    /\ engine # Load(EmptyIndex, disk).ix
    /\ engine' = Load(EmptyIndex, disk).ix
    /\ UNCHANGED <<bm25Vars, last, vstore, ready, runs, second, workerVars, threadVars>>

NextReindex ==
    \/ \E repo_name \in RepoNames : StartReindex(repo_name, Checkout(repo_name))
    \/ ReindexStep
    \/ BuildEngine
    \/ \E query \in Queries, limit \in Limits, filters \in ThreadFilters,
          use_hybrid \in BOOLEAN :
            \E ranking \in Rankings(vstore), scores \in ScoreProfiles(vstore) :
                DoQuery(query, limit, filters, use_hybrid, ranking, scores)

SpecReindex == Init /\ [][NextReindex]_vars

(***************************************************************************)
(* Queries while the services behind the engine may fail.                  *)
(***************************************************************************)
DoEngineSearch(query, limit, filters, use_hybrid, weight, ranking, scores, fault) ==
    LET call == EngineSearch(vstore, engine, query, limit, filters, use_hybrid,
                             weight, ranking, scores, fault)
    IN /\ last' = [NoCall EXCEPT
                     !.op = IF use_hybrid THEN "hybrid_search" ELSE "semantic_search",
                     !.limit = limit, !.fault = fault, !.raised = call.raised,
                     !.ret = Len(call.results)]
       /\ UNCHANGED <<bm25Vars, pipeVars, workerVars, threadVars>>

NextQuery ==
    \/ \E repo_name \in RepoNames :
            DoIndexRepo(repo_name, Checkout(repo_name), "none", {})
    \/ NewEngine
    \/ \E query \in Queries, limit \in Limits, filters \in SearchFilters,
          use_hybrid \in BOOLEAN, fault \in QueryFaults :
            \E ranking \in Rankings(vstore), scores \in ScoreProfiles(vstore) :
                DoEngineSearch(query, limit, filters, use_hybrid, 7, ranking,
                               scores, fault)

SpecQuery == Init /\ [][NextQuery]_vars

(***************************************************************************)
(* The API server: get_search_engine builds the HybridSearchEngine on the  *)
(* first request and keeps it; the repositories are indexed by a separate  *)
(* RepoIndexer (a worker or the CLI).                                      *)
(***************************************************************************)
\* the state after the first request: the engine was built from the index
\* file of that time, which a run of repo a had written or which was not
\* there yet; the indexer that runs from now on is a new one
InitServer ==
    /\ \E contents \in Contents :
         LET run == IndexRepo([index |-> EmptyIndex, disk |-> NoFile,
                               vstore |-> EmptyStore, ready |-> FALSE],
                              "a", ParseRepo(contents, "a", {}), "none", {})
         IN /\ disk = run.sys.disk
            /\ vstore = run.sys.vstore
            /\ engine = Load(EmptyIndex, run.sys.disk).ix
    /\ index = EmptyIndex
    /\ ready = FALSE
    /\ last = NoCall
    /\ runs = 0
    /\ second = NoIndexer
    /\ handler = "none"
    /\ queue = {}
    /\ dlq = {}
    /\ acked = {}
    /\ delivery = NoDelivery
    /\ writer = IdleWriter
    /\ reader = IdleReader

\* a hybrid search request served by the cached engine
ServerSearch(query, limit, ranking, scores) ==
    LET call == EngineSearch(vstore, engine, query, limit, NoFilters, TRUE,
                             DefaultSemanticWeight, ranking, scores, "none")
    IN /\ last' = [NoCall EXCEPT
                     !.op = "hybrid_search", !.query = query, !.limit = limit,
                     !.raised = call.raised, !.ret = Len(call.results),
                     !.results = ResultRows(call.results)]
       /\ UNCHANGED <<bm25Vars, pipeVars, workerVars, threadVars>>

\* some request is served
ServeRequest ==
    \E query \in Queries, limit \in Limits :
        \E ranking \in Rankings(vstore), scores \in ScoreProfiles(vstore) :
            ServerSearch(query, limit, ranking, scores)

NextServer ==
    \/ \E repo_name \in RepoNames, contents \in Contents \ {<<>>} :
            RunIndexRepo(repo_name, contents, "none", {})
    \/ ServeRequest

SpecServer == InitServer /\ [][NextServer]_vars

(***************************************************************************)
(* The rank fusion as a function of its arguments: the two result lists,  *)
(* the optional semantic_weight of the caller and the query are drawn by   *)
(* the initial state, and one call of search's fusion step is applied.     *)
(***************************************************************************)
\* the most results a list holds
MaxHits == 4

\* the entities the lists are drawn from
FusionPool ==
    { CodeEntity(1, "send", "METHOD", "PYTHON", "sessions.py", "a",
                 <<"def", "send">>, <<"send", "HTTP", "request">>),
      CodeEntity(2, "handle_request", "FUNCTION", "PYTHON", "views.py", "a",
                 <<"def", "handle_request">>, <<>>),
      CodeEntity(3, "parseJSON", "FUNCTION", "JAVASCRIPT", "api.py", "b",
                 <<"function", "parseJSON">>, <<"parse_json", "request">>),
      CodeEntity(4, "parse_json", "FUNCTION", "JAVASCRIPT", "util.js", "b",
                 <<"function", "parse_json">>, <<>>) }

\* a result list names every entity at most once
HitLists ==
    { s \in SeqUpTo(FusionPool, MaxHits) :
        \A i, j \in 1..Len(s) : s[i] = s[j] => i = j }

\* cosine scores by rank, in hundredths, best first: within [0.82, 0.83],
\* 0.04 apart and 0.05 apart
CosineProfiles ==
    { [i \in 1..MaxHits |-> IF i = 1 THEN 83 ELSE 82],
      [i \in 1..MaxHits |-> 94 - 4 * i],
      [i \in 1..MaxHits |-> 95 - 5 * i] }

\* (entity, score) tuples of a result list
Scored(hits, profile) ==
    [i \in 1..Len(hits) |-> [entity |-> hits[i], score |-> profile[i]]]

\* BM25 scores by rank: positive and strictly falling
Bm25Profile == [i \in 1..MaxHits |-> MaxHits + 1 - i]

\* the optional semantic_weight of search: None or an override
OptionalWeights == {<<>>, <<5>>}

FusionQueries == { <<"send", "HTTP", "request">>, <<"parse_json">> }

InitFusion ==
    /\ \E sem \in HitLists, profile \in CosineProfiles, bm \in HitLists,
          weight \in OptionalWeights, query \in FusionQueries :
            last = [NoCall EXCEPT
                       !.op = "fusion_args", !.query = query,
                       !.fusion = [NoFusion EXCEPT
                                      !.semantic = Scored(sem, profile),
                                      !.bm25 = Scored(bm, Bm25Profile),
                                      !.semantic_weight = weight]]
    /\ index = EmptyIndex
    /\ disk = NoFile
    /\ vstore = EmptyStore
    /\ ready = FALSE
    /\ engine = EmptyIndex
    /\ runs = 0
    /\ second = NoIndexer
    /\ handler = "none"
    /\ queue = {}
    /\ dlq = {}
    /\ acked = {}
    /\ delivery = NoDelivery
    /\ writer = IdleWriter
    /\ reader = IdleReader

\* the rows of the scores dict: the weighted rrf terms as (weight, divisor)
ScoreRows(entries) ==
    [i \in 1..Len(entries) |->
        [id |-> entries[i].entity.id, sw |-> entries[i].sw,
         sd |-> entries[i].sd, bw |-> entries[i].bw, bd |-> entries[i].bd]]

\* lines 186-188 and 226-232 of search: the weight is resolved and the two
\* lists are fused
Fuse ==
    /\ last.op = "fusion_args"
    /\ LET f == last.fusion
           weight == ResolveWeight(f.semantic_weight, DefaultSemanticWeight)
           combined == ReciprocalRankFusion(f.semantic, f.bm25, weight,
                                            last.query)
       IN last' = [last EXCEPT
                      !.op = "fusion",
                      !.fusion.scores =
                          ScoreRows(FusionScores(f.semantic, f.bm25, weight)),
                      !.fusion.ranked =
                          [i \in 1..Len(combined) |-> combined[i].entity.id]]
    /\ UNCHANGED <<bm25Vars, pipeVars, workerVars, threadVars>>

NextFusion == Fuse

SpecFusion == InitFusion /\ [][NextFusion]_vars

(***************************************************************************)
(* The boost as a function of the entity and the query.                    *)
(***************************************************************************)
\* names and paths of entities, and the queries
BoostNames ==
    {"request", "get", "get_user", "send", "resend", "handle_request",
     "handle_event", "test_login", "latest_news", "parse_json"}

BoostPaths == {"api.py", "sessions.py", "adapters.py", "views.py"}

BoostQueries ==
    { <<"send", "HTTP", "request">>, <<"call", "the", "API">>, <<"parse_json">> }

InitBoost ==
    /\ \E name \in BoostNames, file_path \in BoostPaths, query \in BoostQueries :
            last = [NoCall EXCEPT
                       !.op = "boost_args", !.query = query,
                       !.results = <<CodeEntity(1, name, "FUNCTION", "PYTHON",
                                                file_path, "a", <<>>, <<>>)>>]
    /\ index = EmptyIndex
    /\ disk = NoFile
    /\ vstore = EmptyStore
    /\ ready = FALSE
    /\ engine = EmptyIndex
    /\ runs = 0
    /\ second = NoIndexer
    /\ handler = "none"
    /\ queue = {}
    /\ dlq = {}
    /\ acked = {}
    /\ delivery = NoDelivery
    /\ writer = IdleWriter
    /\ reader = IdleReader

\* lines 338-367 of _reciprocal_rank_fusion for the one entity of the dict:
\* ret is its http_boost in tenths
ApplyBoost ==
    /\ last.op = "boost_args"
    /\ last' = [last EXCEPT !.op = "http_boost",
                            !.ret = HttpBoost(last.results[1], last.query)]
    /\ UNCHANGED <<bm25Vars, pipeVars, workerVars, threadVars>>

NextBoost == ApplyBoost

SpecBoost == InitBoost /\ [][NextBoost]_vars

(***************************************************************************)
(* The two rankings as functions of their arguments: next to the fusion, a *)
(* search of a BM25 index that was filled by one add_entities.             *)
(***************************************************************************)
\* the indices searched: a batch of up to MaxEntities entities added to an
\* empty index
FilledIndices ==
    { AddEntities(EmptyIndex, batch).ix : batch \in SeqUpTo(FusionPool, MaxEntities) }

InitSearch ==
    /\ index \in FilledIndices
    /\ \E query \in Queries, limit \in Limits, filters \in FilterSets :
            last = [NoCall EXCEPT !.op = "search_args", !.query = query,
                                  !.limit = limit, !.filters = filters]
    /\ disk = NoFile
    /\ vstore = EmptyStore
    /\ ready = FALSE
    /\ engine = EmptyIndex
    /\ runs = 0
    /\ second = NoIndexer
    /\ handler = "none"
    /\ queue = {}
    /\ dlq = {}
    /\ acked = {}
    /\ delivery = NoDelivery
    /\ writer = IdleWriter
    /\ reader = IdleReader

\* BM25Index.search on the index: the (id, score) rows it returns
SearchIndex ==
    /\ last.op = "search_args"
    /\ LET items == Search(index, last.query, last.limit, last.filters).items
       IN last' = [last EXCEPT
                      !.op = "search",
                      !.ret = Len(items),
                      !.results = [i \in 1..Len(items) |->
                                     [id |-> items[i].entity.id,
                                      score |-> items[i].score]]]
    /\ UNCHANGED <<bm25Vars, pipeVars, workerVars, threadVars>>

InitRanking == InitFusion \/ InitSearch

NextRanking == Fuse \/ SearchIndex

SpecRanking == InitRanking /\ [][NextRanking]_vars

(***************************************************************************)
(* The extractors. A source is kept as its syntax tree, a node being       *)
(* [type, text, children]; the text of the source is the lines the tree    *)
(* unparses to, a line being [indent, kind, name] with kind "class", "def" *)
(* or "stmt" (any other line that is not blank).                           *)
(***************************************************************************)
Node(type, text, children) == [type |-> type, text |-> text, children |-> children]

Identifier(name) == Node("identifier", name, <<>>)

PassStatement == Node("pass_statement", "", <<>>)

\* a body: the statements, pass for none
Block(stmts) ==
    Node("block", "", IF stmts = <<>> THEN <<PassStatement>> ELSE stmts)

\* def name(): <stmts>
FunctionDefinition(name, stmts) ==
    Node("function_definition", "",
         <<Identifier(name), Node("parameters", "", <<>>), Block(stmts)>>)

\* class name: <stmts>
ClassDefinition(name, stmts) ==
    Node("class_definition", "", <<Identifier(name), Block(stmts)>>)

\* @decorator before a definition
DecoratedDefinition(definition) ==
    Node("decorated_definition", "", <<Node("decorator", "", <<>>), definition>>)

Module(stmts) == Node("module", "", stmts)

\* the text of the first child of that type, "" (None) without one
FirstText(node, type) ==
    IF \E i \in 1..Len(node.children) : node.children[i].type = type
    THEN node.children[CHOOSE i \in 1..Len(node.children) :
                          /\ node.children[i].type = type
                          /\ \A j \in 1..(i - 1) : node.children[j].type # type].text
    ELSE ""

\* the fields of a CodeEntity the claims on the extractors read
ParsedEntity(name, entity_type, parent_class) ==
    [name |-> name, entity_type |-> entity_type, parent_class |-> parent_class]

\* PythonParser._parse_function_node: None (<<>>) for a node without a name
ParseFunctionNode(node, parent_class) ==
    IF FirstText(node, "identifier") = "" THEN <<>>
    ELSE <<ParsedEntity(FirstText(node, "identifier"),
                        IF parent_class # "" THEN "METHOD" ELSE "FUNCTION",
                        parent_class)>>

\* PythonParser._parse_class_node
ParseClassNode(node) ==
    IF FirstText(node, "identifier") = "" THEN <<>>
    ELSE <<ParsedEntity(FirstText(node, "identifier"), "CLASS", "")>>

\* visit of _extract_functions: the entities it appends, in order
RECURSIVE VisitFunctions(_, _)
VisitFunctions(node, current_class) ==
    IF node.type = "function_definition"
    THEN ParseFunctionNode(node, current_class)
    ELSE IF node.type = "class_definition"
    THEN LET class_name == FirstText(node, "identifier")
         IN Flatten([i \in 1..Len(node.children) |->
                IF node.children[i].type = "block"
                THEN Flatten([j \in 1..Len(node.children[i].children) |->
                        VisitFunctions(node.children[i].children[j], class_name)])
                ELSE <<>>])
    ELSE Flatten([i \in 1..Len(node.children) |->
                    VisitFunctions(node.children[i], current_class)])

\* visit of _extract_classes: a node is parsed when it is a class
\* definition, and the children that are class definitions are not visited
RECURSIVE VisitClasses(_)
VisitClasses(node) ==
    (IF node.type = "class_definition" THEN ParseClassNode(node) ELSE <<>>)
    \o Flatten([i \in 1..Len(node.children) |->
                  IF node.children[i].type # "class_definition"
                  THEN VisitClasses(node.children[i])
                  ELSE <<>>])

\* the lines of the source of a node at an indentation
RECURSIVE Unparse(_, _)
Unparse(node, indent) ==
    IF node.type \in {"function_definition", "class_definition"}
    THEN <<[indent |-> indent,
            kind |-> IF node.type = "class_definition" THEN "class" ELSE "def",
            name |-> FirstText(node, "identifier")]>>
         \o Flatten([i \in 1..Len(node.children) |->
                        Unparse(node.children[i], indent + 1)])
    ELSE IF node.type \in {"decorator", "pass_statement"}
    THEN <<[indent |-> indent, kind |-> "stmt", name |-> ""]>>
    ELSE IF node.type \in {"module", "block", "decorated_definition"}
    THEN Flatten([i \in 1..Len(node.children) |->
                    Unparse(node.children[i], indent)])
    ELSE <<>>

\* the loop of PythonParser._fallback_parse over the lines from line i on
RECURSIVE FallbackLoop(_, _, _, _, _)
FallbackLoop(lines, i, current_class, class_indent, entities) ==
    IF i > Len(lines) THEN entities
    ELSE LET line == lines[i] IN
         IF line.kind = "class"
         THEN FallbackLoop(lines, i + 1, line.name, line.indent,
                           Append(entities, ParsedEntity(line.name, "CLASS", "")))
         ELSE LET is_method == current_class # "" /\ line.indent > class_indent
                  found == IF line.kind = "def"
                           THEN Append(entities,
                                    ParsedEntity(line.name,
                                        IF is_method THEN "METHOD" ELSE "FUNCTION",
                                        IF is_method THEN current_class ELSE ""))
                           ELSE entities
              IN FallbackLoop(lines, i + 1,
                              IF line.indent = 0 THEN "" ELSE current_class,
                              class_indent, found)

\* PythonParser._fallback_parse
PythonFallbackParse(tree) == FallbackLoop(Unparse(tree, 0), 1, "", 0, <<>>)

\* PythonParser.parse_content: initialized says whether tree-sitter loaded
PythonParseContent(tree, initialized) ==
    IF ~initialized THEN PythonFallbackParse(tree)
    ELSE VisitFunctions(tree, "") \o VisitClasses(tree)

\* the most statements of a module and of a class body
MaxDecls == 2

\* the bodies of classes: methods, plain and decorated
ClassBodies ==
    { b \in SeqUpTo({FunctionDefinition("add", <<>>),
                     FunctionDefinition("sub", <<PassStatement>>),
                     DecoratedDefinition(FunctionDefinition("get", <<>>))},
                    MaxDecls) :
        \A i, j \in 1..Len(b) : b[i] = b[j] => i = j }

\* the statements of a module: functions, one holding a function, classes
\* with their methods, a decorated class and a class holding a class
PythonStatements ==
    { FunctionDefinition("main", <<>>),
      FunctionDefinition("outer", <<FunctionDefinition("inner", <<>>)>>),
      DecoratedDefinition(ClassDefinition("View", <<FunctionDefinition("get", <<>>)>>)),
      ClassDefinition("Tree", <<ClassDefinition("Leaf", <<FunctionDefinition("add", <<>>)>>),
                                FunctionDefinition("sub", <<>>)>>) }
    \cup { ClassDefinition("Calculator", body) : body \in ClassBodies }

PythonSources == { Module(stmts) : stmts \in SeqUpTo(PythonStatements, MaxDecls) }

InitParse ==
    /\ \E tree \in PythonSources, initialized \in BOOLEAN :
            last = [NoCall EXCEPT
                       !.op = "parse_args",
                       !.parse = [NoParse EXCEPT !.language = "python",
                                                 !.initialized = initialized,
                                                 !.tree = tree]]
    /\ index = EmptyIndex
    /\ disk = NoFile
    /\ vstore = EmptyStore
    /\ ready = FALSE
    /\ engine = EmptyIndex
    /\ runs = 0
    /\ second = NoIndexer
    /\ handler = "none"
    /\ queue = {}
    /\ dlq = {}
    /\ acked = {}
    /\ delivery = NoDelivery
    /\ writer = IdleWriter
    /\ reader = IdleReader

\* PythonParser.parse_content on the source
ParsePython ==
    /\ last.op = "parse_args"
    /\ last.parse.language = "python"
    /\ last' = [last EXCEPT
                   !.op = "parse_content",
                   !.parse.entities =
                       PythonParseContent(last.parse.tree, last.parse.initialized)]
    /\ UNCHANGED <<bm25Vars, pipeVars, workerVars, threadVars>>

\* function name() { <stmts> }
JsFunction(name, stmts) ==
    Node("function_declaration", "",
         <<Identifier(name), Node("formal_parameters", "", <<>>),
           Node("statement_block", "", stmts)>>)

\* const name = () => ...
JsArrow(name) ==
    Node("lexical_declaration", "",
         <<Node("variable_declarator", "",
                <<Identifier(name), Node("arrow_function", "", <<>>)>>)>>)

\* name() { } in a class body
JsMethod(name) ==
    Node("method_definition", "",
         <<Node("property_identifier", name, <<>>),
           Node("formal_parameters", "", <<>>),
           Node("statement_block", "", <<>>)>>)

\* class name { <members> }
JsClass(name, members) ==
    Node("class_declaration", "", <<Identifier(name), Node("class_body", "", members)>>)

\* export <declaration>
JsExport(declaration) == Node("export_statement", "", <<declaration>>)

\* JavaScriptParser._parse_variable_function on a variable_declarator
ParseVariableFunction(node) ==
    IF FirstText(node, "identifier") = ""
       \/ ~\E i \in 1..Len(node.children) :
              node.children[i].type \in {"arrow_function", "function"}
    THEN <<>>
    ELSE <<ParsedEntity(FirstText(node, "identifier"), "FUNCTION", "")>>

\* JavaScriptParser._extract_class_methods
ExtractClassMethods(class_node, class_name) ==
    Flatten([i \in 1..Len(class_node.children) |->
        IF class_node.children[i].type # "class_body" THEN <<>>
        ELSE LET members == class_node.children[i].children
             IN Flatten([j \in 1..Len(members) |->
                    IF members[j].type = "method_definition"
                       /\ FirstText(members[j], "property_identifier") # ""
                    THEN <<ParsedEntity(FirstText(members[j], "property_identifier"),
                                        "METHOD", class_name)>>
                    ELSE <<>>])])

\* JavaScriptParser._extract_entities: the entities it appends, in order
RECURSIVE ExtractEntities(_, _)
ExtractEntities(node, parent_class) ==
    IF node.type = "function_declaration"
    THEN ParseFunctionNode(node, parent_class)
    ELSE IF node.type \in {"lexical_declaration", "variable_declaration"}
    THEN Flatten([i \in 1..Len(node.children) |->
                    IF node.children[i].type = "variable_declarator"
                    THEN ParseVariableFunction(node.children[i]) ELSE <<>>])
    ELSE IF node.type = "class_declaration"
    THEN IF ParseClassNode(node) = <<>> THEN <<>>
         ELSE ParseClassNode(node)
              \o ExtractClassMethods(node, FirstText(node, "identifier"))
    ELSE IF node.type = "method_definition" /\ parent_class # ""
    THEN <<ParsedEntity(FirstText(node, "property_identifier"), "METHOD",
                        parent_class)>>
    ELSE Flatten([i \in 1..Len(node.children) |->
                    ExtractEntities(node.children[i], parent_class)])

\* the bodies of JavaScript classes
JsClassBodies ==
    { b \in SeqUpTo({JsMethod("get"), JsMethod("post")}, MaxDecls) :
        \A i, j \in 1..Len(b) : b[i] = b[j] => i = j }

\* the statements of a program
JsStatements ==
    { JsFunction("main", <<>>),
      JsFunction("outer", <<JsFunction("inner", <<>>)>>),
      JsArrow("fetchUser"),
      JsExport(JsFunction("helper", <<>>)),
      JsExport(JsClass("Client", <<JsMethod("get")>>)) }
    \cup { JsClass("Session", body) : body \in JsClassBodies }

JsSources == { Node("program", "", stmts) : stmts \in SeqUpTo(JsStatements, MaxDecls) }

\* the sources with tree-sitter loaded
InitParseJs ==
    /\ \E tree \in JsSources :
            last = [NoCall EXCEPT
                       !.op = "parse_args",
                       !.parse = [NoParse EXCEPT !.language = "javascript",
                                                 !.initialized = TRUE,
                                                 !.tree = tree]]
    /\ index = EmptyIndex
    /\ disk = NoFile
    /\ vstore = EmptyStore
    /\ ready = FALSE
    /\ engine = EmptyIndex
    /\ runs = 0
    /\ second = NoIndexer
    /\ handler = "none"
    /\ queue = {}
    /\ dlq = {}
    /\ acked = {}
    /\ delivery = NoDelivery
    /\ writer = IdleWriter
    /\ reader = IdleReader

\* JavaScriptParser.parse_content on the source, tree-sitter loaded
ParseJavaScript ==
    /\ last.op = "parse_args"
    /\ last.parse.language = "javascript"
    /\ last' = [last EXCEPT
                   !.op = "parse_content",
                   !.parse.entities = ExtractEntities(last.parse.tree, "")]
    /\ UNCHANGED <<bm25Vars, pipeVars, workerVars, threadVars>>

NextParse == ParsePython

NextExtract == ParsePython \/ ParseJavaScript

SpecExtract == (InitParse \/ InitParseJs) /\ [][NextExtract]_vars

SpecParse == InitParse /\ [][NextParse]_vars

(***************************************************************************)
(* The worker: messages are published, delivered to _process_message and   *)
(* settled on the channel. A rejected delivery goes to the dead-letter     *)
(* exchange (requeue=False) or back to the queue (requeue=True).           *)
(***************************************************************************)
MaxJobs == 2

\* delivery tags count up on the channel; the model keeps them modulo TagWrap
TagWrap == 2

\* the bodies published: bytes that are no UTF-8, text that is no JSON, a
\* JSON list, a job without repo_url, and well-formed jobs
JobBodies ==
    { Body(FALSE, FALSE, FALSE, {}, ""),
      Body(TRUE, FALSE, FALSE, {}, ""),
      Body(TRUE, TRUE, FALSE, {}, ""),
      Body(TRUE, TRUE, TRUE, {"repo_name"}, "a"),
      Body(TRUE, TRUE, TRUE, {"repo_url", "repo_name"}, "a"),
      Body(TRUE, TRUE, TRUE, {"repo_url", "repo_name", "branch"}, "b") }

Messages == [id : 1..MaxJobs, body : JobBodies]

Published == queue \cup dlq \cup acked

\* set_handler, or the handler of create_indexing_handler
SetHandler(kind) ==
    /\ Published = {}
    /\ handler # kind
    /\ handler' = kind
    /\ UNCHANGED <<bm25Vars, last, pipeVars, queue, dlq, acked, delivery,
                   threadVars>>

Publish(body) ==
    /\ Cardinality(Published) < MaxJobs
    /\ LET id == CHOOSE i \in 1..MaxJobs :
                    /\ \A m \in Published : m.id # i
                    /\ \A j \in 1..(i - 1) : \E m \in Published : m.id = j
       IN queue' = queue \cup {[id |-> id, body |-> body]}
    /\ UNCHANGED <<bm25Vars, last, pipeVars, handler, dlq, acked, delivery,
                   threadVars>>

\* the channel call of the delivery applied to the queues
Settle(m, settlement, fault) ==
    /\ delivery' = [tag |-> (delivery.tag + 1) % TagWrap, message |-> m,
                    fault |-> fault, calls |-> <<settlement>>]
    /\ queue' = IF settlement.call = "basic_reject" /\ settlement.requeue
                THEN queue ELSE queue \ {m}
    /\ acked' = IF settlement.call = "basic_ack" THEN acked \cup {m} ELSE acked
    /\ dlq' = IF settlement.call = "basic_reject" /\ ~settlement.requeue
              THEN dlq \cup {m} ELSE dlq

\* a delivery whose body does not parse: the handler is not reached
ProcessUnparsed(m) ==
    /\ m \in queue
    /\ ParseJob(m.body) # ""
    /\ Settle(m, ProcessMessage(m.body, "true"), ParseJob(m.body))
    /\ UNCHANGED <<bm25Vars, last, pipeVars, handler, threadVars>>

\* a delivery handled with no handler set, or by a handler set by the
\* caller, which returns True or False or raises
ProcessWithHandler(m, outcome) ==
    /\ m \in queue
    /\ ParseJob(m.body) = ""
    /\ handler \in {"none", "custom"}
    /\ handler = "none" => outcome = "true"
    /\ Settle(m, ProcessMessage(m.body, outcome),
              CASE outcome = "true" -> "none"
                [] outcome = "false" -> "failed"
                [] OTHER -> "raise")
    /\ UNCHANGED <<bm25Vars, last, pipeVars, handler, threadVars>>

\* a delivery handled by the default handler, which runs index_repo. Past
\* MaxRuns runs the job's clone fails or its repository is empty.
ProcessWithIndexer(m, contents, fault) ==
    LET run == IndexRepo(Sys, m.body.repo_name,
                         ParseRepo(contents, m.body.repo_name, UsedIds),
                         fault, {})
    IN /\ m \in queue
       /\ ParseJob(m.body) = ""
       /\ handler = "default"
       /\ runs >= MaxRuns => fault = "clone" \/ contents = <<>>
       /\ runs' = IF runs < MaxRuns THEN runs + 1 ELSE runs
       /\ index' = run.sys.index
       /\ disk' = run.sys.disk
       /\ vstore' = run.sys.vstore
       /\ ready' = run.sys.ready
       /\ Settle(m, ProcessMessage(m.body, DefaultHandlerOutcome(run.result)),
                 IF run.result.success THEN "none" ELSE fault)
       /\ UNCHANGED <<last, engine, second, handler, threadVars>>

\* the faults the worker specification injects into a job's run
JobFaults == {"none", "clone", "insert"}

ProcessMessageStep(m) ==
    \/ ProcessUnparsed(m)
    \/ \E outcome \in {"true", "false", "raise"} : ProcessWithHandler(m, outcome)
    \/ \E fault \in JobFaults :
            \E contents \in {<<>>, Checkout(m.body.repo_name)} :
                ProcessWithIndexer(m, contents, fault)

NextWorker ==
    \/ \E kind \in {"custom", "default"} : SetHandler(kind)
    \/ \E body \in JobBodies : Publish(body)
    \/ \E m \in Messages : ProcessUnparsed(m)
    \/ \E m \in Messages, outcome \in {"true", "false", "raise"} :
            ProcessWithHandler(m, outcome)
    \/ \E m \in Messages, fault \in JobFaults :
            \E contents \in {<<>>, Checkout(m.body.repo_name)} :
                ProcessWithIndexer(m, contents, fault)

SpecWorker == Init /\ [][NextWorker]_vars

\* fair scheduling: a message that stays in the queue is delivered again
FairSpecWorker ==
    SpecWorker /\ \A m \in Messages : WF_vars(ProcessMessageStep(m))

(***************************************************************************)
(* One delivery to _process_message as a function of the body, of what the *)
(* handler does and of the state of the channel.                           *)
(***************************************************************************)
Channels == {"open", "closed", "flaky"}

InitDelivery ==
    /\ \E body \in JobBodies, kind \in {"none", "custom"},
          outcome \in {"true", "false", "raise"}, channel \in Channels :
            /\ kind = "none" => outcome = "true"
            /\ handler = kind
            /\ last = [NoCall EXCEPT !.op = "deliver_args", !.before = outcome]
            /\ queue = {[id |-> 1, body |-> body]}
            /\ delivery = [NoDelivery EXCEPT !.fault = channel]
    /\ index = EmptyIndex
    /\ disk = NoFile
    /\ vstore = EmptyStore
    /\ ready = FALSE
    /\ engine = EmptyIndex
    /\ runs = 0
    /\ second = NoIndexer
    /\ dlq = {}
    /\ acked = {}
    /\ writer = IdleWriter
    /\ reader = IdleReader

\* _process_message called with the message of the queue: calls are the
\* basic_ack and basic_reject it issues for the delivery tag
ProcessDelivery ==
    /\ last.op = "deliver_args"
    /\ \E m \in queue :
         LET r == ProcessMessageCalls(m.body, last.before, delivery.fault)
         IN /\ delivery' = [delivery EXCEPT !.tag = 1, !.message = m,
                                            !.calls = r.calls]
            /\ last' = [last EXCEPT !.op = "process_message",
                                    !.raised = r.raised]
    /\ UNCHANGED <<bm25Vars, pipeVars, handler, queue, dlq, acked, threadVars>>

NextDelivery == ProcessDelivery

SpecDelivery == InitDelivery /\ [][NextDelivery]_vars

(***************************************************************************)
(* One writer thread and one reader thread on the same BM25Index. No       *)
(* method of the class takes a lock, so the threads interleave between the *)
(* statements that read or assign a field of the index.                    *)
(***************************************************************************)
\* ---- the writer: add_entities, lines 90-104
StartAdd(batch) ==
    /\ writer.pc = "idle"
    /\ batch # <<>>
    /\ Len(index.entities) + Len(batch) <= MaxEntities
    /\ writer' = [pc |-> "add", step |-> "test", batch |-> batch, added |-> 0]
    /\ UNCHANGED <<bm25Vars, last, pipeVars, workerVars, reader>>

AddStep ==
    /\ writer.pc = "add"
    /\ \/ /\ writer.step = "test"
          /\ writer.batch # <<>>
          /\ IF Head(writer.batch).id \in DOMAIN index.entity_ids
             THEN /\ writer' = [writer EXCEPT !.batch = Tail(writer.batch)]
                  /\ UNCHANGED index
             ELSE /\ index' = [index EXCEPT !.entity_ids =
                                  DictPut(index.entity_ids, Head(writer.batch).id,
                                          Len(index.entities))]
                  /\ writer' = [writer EXCEPT !.step = "entities"]
       \/ /\ writer.step = "entities"
          /\ index' = [index EXCEPT !.entities = Append(index.entities,
                                                        Head(writer.batch))]
          /\ writer' = [writer EXCEPT !.step = "corpus"]
       \/ /\ writer.step = "corpus"
          /\ index' = [index EXCEPT !.corpus =
                          Append(index.corpus,
                                 Tokenize(EntityToDocument(Head(writer.batch))))]
          /\ writer' = [writer EXCEPT !.step = "test",
                                      !.batch = Tail(writer.batch),
                                      !.added = writer.added + 1]
       \/ /\ writer.step = "test"
          /\ writer.batch = <<>>
          /\ index' = IF writer.added > 0 THEN RebuildIndex(index) ELSE index
          /\ writer' = IdleWriter
    /\ UNCHANGED <<disk, last, pipeVars, workerVars, reader>>

\* ---- remove_by_repo, lines 175-199
StartRemove(repo_name) ==
    /\ writer.pc = "idle"
    /\ ~RemoveRaises(index)
    /\ ToRemove(index, repo_name) # {}
    /\ writer' = [pc |-> "remove", step |-> "entities",
                  kept |-> KeepLoop(index, ToRemove(index, repo_name), 1,
                                    [EmptyIndex EXCEPT !.bm25 = index.bm25])]
    /\ UNCHANGED <<bm25Vars, last, pipeVars, workerVars, reader>>

RemoveStep ==
    /\ writer.pc = "remove"
    /\ \/ /\ writer.step = "entities"
          /\ index' = [index EXCEPT !.entities = writer.kept.entities]
          /\ writer' = [writer EXCEPT !.step = "corpus"]
       \/ /\ writer.step = "corpus"
          /\ index' = [index EXCEPT !.corpus = writer.kept.corpus]
          /\ writer' = [writer EXCEPT !.step = "entity_ids"]
       \/ /\ writer.step = "entity_ids"
          /\ index' = [index EXCEPT !.entity_ids = writer.kept.entity_ids]
          /\ writer' = [writer EXCEPT !.step = "rebuild"]
       \/ /\ writer.step = "rebuild"
          /\ index' = RebuildIndex(index)
          /\ writer' = IdleWriter
    /\ UNCHANGED <<disk, last, pipeVars, workerVars, reader>>

\* ---- clear, lines 249-252
StartClear ==
    /\ writer.pc = "idle"
    /\ index # EmptyIndex
    /\ writer' = [pc |-> "clear", step |-> "bm25"]
    /\ UNCHANGED <<bm25Vars, last, pipeVars, workerVars, reader>>

ClearStep ==
    /\ writer.pc = "clear"
    /\ \/ /\ writer.step = "bm25"
          /\ index' = [index EXCEPT !.bm25 = NoBM25]
          /\ writer' = [writer EXCEPT !.step = "entities"]
       \/ /\ writer.step = "entities"
          /\ index' = [index EXCEPT !.entities = <<>>]
          /\ writer' = [writer EXCEPT !.step = "entity_ids"]
       \/ /\ writer.step = "entity_ids"
          /\ index' = [index EXCEPT !.entity_ids = <<>>]
          /\ writer' = [writer EXCEPT !.step = "corpus"]
       \/ /\ writer.step = "corpus"
          /\ index' = [index EXCEPT !.corpus = <<>>]
          /\ writer' = IdleWriter
    /\ UNCHANGED <<disk, last, pipeVars, workerVars, reader>>

\* ---- save, lines 206-215, and load of the saved file, lines 228-234
WriterSave ==
    /\ writer.pc = "idle"
    /\ disk # Save(index)
    /\ disk' = Save(index)
    /\ UNCHANGED <<index, last, pipeVars, workerVars, threadVars>>

StartLoad ==
    /\ writer.pc = "idle"
    /\ disk.kind = "pickle"
    /\ Load(EmptyIndex, disk).ret
    /\ writer' = [pc |-> "load", step |-> "entities",
                  kept |-> Load(EmptyIndex, disk).ix]
    /\ UNCHANGED <<bm25Vars, last, pipeVars, workerVars, reader>>

LoadStep ==
    /\ writer.pc = "load"
    /\ \/ /\ writer.step = "entities"
          /\ index' = [index EXCEPT !.entities = writer.kept.entities]
          /\ writer' = [writer EXCEPT !.step = "corpus"]
       \/ /\ writer.step = "corpus"
          /\ index' = [index EXCEPT !.corpus = writer.kept.corpus]
          /\ writer' = [writer EXCEPT !.step = "entity_ids"]
       \/ /\ writer.step = "entity_ids"
          /\ index' = [index EXCEPT !.entity_ids = writer.kept.entity_ids]
          /\ writer' = [writer EXCEPT !.step = "rebuild"]
       \/ /\ writer.step = "rebuild"
          /\ index' = RebuildIndex(index)
          /\ writer' = IdleWriter
    /\ UNCHANGED <<disk, last, pipeVars, workerVars, reader>>

\* ---- the reader: search, lines 134-170
StartSearch(query, limit, filters) ==
    /\ reader.pc = "idle"
    /\ reader' = [pc |-> "check", query |-> query, limit |-> limit,
                  filters |-> filters, scores |-> <<>>, rows |-> <<>>, i |-> 0,
                  acc |-> <<>>]
    /\ UNCHANGED <<bm25Vars, last, pipeVars, workerVars, writer>>

\* line 134 and line 140
SearchCheck ==
    /\ reader.pc = "check"
    /\ reader' = IF \/ ~index.bm25.built
                    \/ index.entities = <<>>
                    \/ Tokenize(reader.query) = <<>>
                 THEN [reader EXCEPT !.pc = "done"]
                 ELSE [reader EXCEPT !.pc = "scores"]
    /\ UNCHANGED <<bm25Vars, last, pipeVars, workerVars, writer>>

\* line 144: self._bm25 is read again; rows is the corpus the model that
\* answers was built from
SearchScores ==
    /\ reader.pc = "scores"
    /\ reader' = IF ~index.bm25.built
                 THEN [reader EXCEPT !.pc = "AttributeError"]
                 ELSE [reader EXCEPT
                         !.pc = "rows",
                         !.scores = GetScores(index.bm25.corpus,
                                              Tokenize(reader.query)),
                         !.rows = index.bm25.corpus,
                         !.i = 1]
    /\ UNCHANGED <<bm25Vars, last, pipeVars, workerVars, writer>>

\* one round of the loop of lines 151-166, and lines 169-170 after it
SearchRow ==
    /\ reader.pc = "rows"
    /\ reader' =
        IF reader.i > Len(reader.scores)
        THEN [reader EXCEPT !.pc = "done",
                            !.acc = Prefix(SortDesc(reader.acc), reader.limit)]
        ELSE IF BelowMinScore(reader.scores[reader.i], reader.scores)
        THEN [reader EXCEPT !.i = reader.i + 1]
        ELSE IF reader.i > Len(index.entities)
        THEN [reader EXCEPT !.pc = "IndexError"]
        ELSE IF /\ reader.filters # NoFilters
                /\ ~PassesFilters(index.entities[reader.i], reader.filters)
        THEN [reader EXCEPT !.i = reader.i + 1]
        ELSE [reader EXCEPT
                !.i = reader.i + 1,
                !.acc = Append(reader.acc,
                               [entity |-> index.entities[reader.i],
                                score |-> reader.scores[reader.i],
                                row |-> reader.i])]
    /\ UNCHANGED <<bm25Vars, last, pipeVars, workerVars, writer>>

\* the search has returned or raised; the thread is free for the next one
SearchReturn ==
    /\ reader.pc \in {"done", "IndexError", "AttributeError"}
    /\ reader' = IdleReader
    /\ UNCHANGED <<bm25Vars, last, pipeVars, workerVars, writer>>

\* searches with and without a filter, batches of the two entities
ThreadBatches == SeqUpTo(ThreadEntities, MaxBatch) \ {<<>>}

NextThreads ==
    \/ \E batch \in ThreadBatches : StartAdd(batch)
    \/ AddStep
    \/ \E repo_name \in RepoNames : StartRemove(repo_name)
    \/ RemoveStep
    \/ StartClear
    \/ ClearStep
    \/ WriterSave
    \/ StartLoad
    \/ LoadStep
    \/ \E query \in Queries, limit \in Limits, filters \in ThreadFilters :
            StartSearch(query, limit, filters)
    \/ SearchCheck
    \/ SearchScores
    \/ SearchRow
    \/ SearchReturn

SpecThreads == Init /\ [][NextThreads]_vars

(***************************************************************************)
(* The pipeline claims.                                                    *)
(***************************************************************************)
RunOps == {"index_directory", "index_repo"}

\* the BM25 index the indexer works on: loaded from the file on first use
PriorIndex == IF ready THEN index ELSE Load(EmptyIndex, disk).ix

\* the stored points of a repository, as entities
PointsOfRepo(vs, r) ==
    {EntityOfPoint(id, vs[id]) : id \in {k \in DOMAIN vs : vs[k].payload.repo_name = r}}

\* the points of the other repositories, with their vectors
OtherPoints(vs, r) ==
    {<<id, vs[id]>> : id \in {k \in DOMAIN vs : vs[k].payload.repo_name # r}}

\* what the run that just returned extracted: the files it found, with the
\* ids the run gave them
Extracted ==
    ParseRepo(CHOOSE c \in Contents : Len(c) = last'.result.entities_found,
              last'.repo, UsedIds)

\* both indices hold for the repository exactly the extracted entities, once
\* each, and the other repositories are as before
RunReplacedSnapshot ==
    /\ OfRepo(index'.entities, last'.repo) = Extracted
    /\ PointsOfRepo(vstore', last'.repo) = Range(Extracted)
    /\ Cardinality({k \in DOMAIN vstore' : vstore'[k].payload.repo_name = last'.repo})
            = Len(Extracted)
    /\ NotOfRepo(index'.entities, last'.repo)
            = NotOfRepo(PriorIndex.entities, last'.repo)
    /\ OtherPoints(vstore', last'.repo) = OtherPoints(vstore, last'.repo)

\* C2 as stated: after any run of index_directory / index_repo for r that
\* returns success, both indices hold for r exactly the entities the run
\* extracted, and the other repositories are untouched.
C2_RunIdempotent ==
    [][(last'.op \in RunOps /\ last'.result.success) => RunReplacedSnapshot]_vars

\* C2 amended: the same for a successful run that extracted at least one
\* entity; a successful run that extracted none leaves both indices as they
\* were.
C2_RunIdempotentWhenNonEmpty ==
    [][(last'.op \in RunOps /\ last'.result.success)
        => IF last'.result.entities_found > 0
           THEN RunReplacedSnapshot
           ELSE /\ vstore' = vstore
                /\ index' = index
                /\ disk' = disk]_vars

\* a run for "a" that found one entity has replaced a snapshot of two: the
\* entity carries the third id
C2_Witness ==
    /\ last.op \in RunOps
    /\ last.result.success
    /\ last.repo = "a"
    /\ last.result.entities_found = 1
    /\ OfRepo(index.entities, "a") # <<>>
    /\ \A i \in 1..Len(index.entities) : index.entities[i].id = 3
    /\ DOMAIN vstore = {3}

(***************************************************************************)
(* The search claims.                                                      *)
(***************************************************************************)
\* the entity has the supplied value on each filtered field
SatisfiesFilters(entity, filters) ==
    /\ "language" \in DOMAIN filters
            => LanguageValue(entity.language) = filters["language"]
    /\ "entity_type" \in DOMAIN filters
            => EntityTypeValue(entity.entity_type) = filters["entity_type"]
    /\ "repo_name" \in DOMAIN filters => entity.repo_name = filters["repo_name"]

WithinLimitAndFilters(results, limit, filters) ==
    /\ Len(results) <= limit
    /\ \A i \in 1..Len(results) : SatisfiesFilters(results[i].entity, filters)

\* the results of every hybrid or semantic search on the current stores
HybridSearches(query, limit, filters) ==
    {HybridSearch(vstore, engine, query, limit, filters, use_hybrid, weight,
                  ranking, scores) :
        use_hybrid \in BOOLEAN, weight \in Weights,
        ranking \in Rankings(vstore), scores \in ScoreProfiles(vstore)}

\* C8: for every query, limit >= 1 and filter combination, BM25Index.search
\* and HybridSearchEngine.search return at most limit results, each equal to
\* the supplied value on every filtered field.
C8_LimitAndFilters ==
    \A query \in Queries, limit \in Limits, filters \in SearchFilters :
        /\ WithinLimitAndFilters(Search(index, query, limit, filters).items,
                                 limit, filters)
        /\ \A results \in HybridSearches(query, limit, filters) :
                WithinLimitAndFilters(results, limit, filters)

\* a hybrid search with limit 1 has been answered from stores that hold two
\* entities passing its filter and one that does not
C8_Witness ==
    /\ last.op = "hybrid_search"
    /\ last.limit = 1
    /\ last.ret = 1
    /\ Cardinality(MatchingPoints(vstore, [repo_name |-> "a"])) = 2
    /\ Cardinality(DOMAIN vstore) > 2
    /\ Len(OfRepo(engine.entities, "a")) = 2
    /\ \E results \in HybridSearches(<<"send", "HTTP", "request">>, 1,
                                      [repo_name |-> "a"]) :
            Len(results) = 1

(***************************************************************************)
(* The worker claims.                                                      *)
(***************************************************************************)
\* a step that is a delivery to _process_message
Delivered == delivery' # delivery

RejectedWithoutRequeue(m) ==
    /\ delivery'.calls = <<[call |-> "basic_reject", requeue |-> FALSE]>>
    /\ m \in dlq'
    /\ m \notin queue'

\* C3: a delivery whose payload is not valid JSON, or is valid JSON but no
\* valid IndexingJob, is rejected without requeue: the message is
\* dead-lettered and is not back in the queue.
C3_MalformedRejectedWithoutRequeue ==
    [][(Delivered /\ ParseJob(delivery'.message.body) # "")
        => RejectedWithoutRequeue(delivery'.message)]_vars

\* the errors a run of the pipeline or a handler hits while processing
ProcessingErrors == (Faults \ {"none"}) \cup {"raise"}

\* C4: a well-formed job is acknowledged when its processing succeeds and
\* rejected with requeue when its processing hits an error, whichever
\* handler processes it.
C4_AckOrRequeue ==
    [][(Delivered /\ ParseJob(delivery'.message.body) = "")
        => /\ delivery'.fault = "none"
                => /\ delivery'.calls = <<[call |-> "basic_ack", requeue |-> FALSE]>>
                   /\ delivery'.message \in acked'
           /\ delivery'.fault \in ProcessingErrors
                => /\ delivery'.calls = <<[call |-> "basic_reject", requeue |-> TRUE]>>
                   /\ delivery'.message \in queue']_vars

\* C5: every message in the queue is eventually acknowledged or
\* dead-lettered.
C5_EventuallySettled ==
    \A m \in Messages : (m \in queue) ~> (m \in acked \/ m \in dlq)

(***************************************************************************)
(* The concurrency claim.                                                  *)
(***************************************************************************)
\* the document of the entity is the row of the BM25 model its score is of
RightlyAttributed(item) ==
    /\ item.row <= Len(reader.rows)
    /\ Tokenize(EntityToDocument(item.entity)) = reader.rows[item.row]

\* C1: a search that runs while the writer adds, removes, clears or loads
\* never finds the entity list out of step with the BM25 model: it does not
\* index past the entity list, it does not find the model gone, and every
\* score it keeps is attributed to the entity of the scored row.
C1_SearchSeesConsistentIndex ==
    /\ reader.pc \notin {"IndexError", "AttributeError"}
    /\ reader.pc \in {"rows", "done"}
            => \A k \in 1..Len(reader.acc) : RightlyAttributed(reader.acc[k])

(***************************************************************************)
(* The vector store claims.                                                *)
(***************************************************************************)
\* C11: an insert called with different numbers of entities and embeddings
\* raises at its first attempt: one attempt, no backoff wait, no upsert.
C11_MismatchFailsAtOnce ==
    (last.op = "insert" /\ last.insert.entities # last.insert.embeddings)
        => /\ last.insert.raised
           /\ last.insert.attempts = 1
           /\ last.insert.waits = 0
           /\ last.insert.upserts = 0

\* how a direct insert with matching counts went, by the number of upsert
\* calls the backend fails
InsertOutcome(call, ret) ==
    /\ call.upserts <= 3
    /\ (call.entities > 0 /\ call.failing < 3)
            => /\ ~call.raised
               /\ ret = call.entities
               /\ call.upserts = call.failing + 1
    /\ (call.entities > 0 /\ call.failing >= 3)
            => /\ call.raised
               /\ call.attempts = 3
               /\ call.upserts = 3
    /\ call.entities = 0
            => /\ ~call.raised
               /\ ret = 0
               /\ call.upserts = 0

\* C12: an insert makes at most 3 upsert calls; it returns the number of
\* entities when one of them succeeds; when the backend keeps failing it
\* raises after the third, leaving the collection as it was, and the run of
\* the pipeline that made the call returns success = false with an error;
\* an insert of no entities returns 0 without an upsert.
C12_BoundedRetry ==
    [][/\ (last'.op = "insert" /\ last'.insert.entities = last'.insert.embeddings)
            => /\ InsertOutcome(last'.insert, last'.ret)
               /\ last'.insert.raised => vstore' = vstore
       /\ last'.op = "index_directory"
            => \A repo_name \in RepoNames, contents \in Contents \ {<<>>} :
                    DoIndexDirectory(repo_name, contents, "insert", {})
                        => /\ ~last'.result.success
                           /\ last'.result.error # ""]_vars

\* an insert of two entities went through at the third upsert
C12_Witness ==
    /\ last.op = "insert"
    /\ last.insert.failing = 2
    /\ last.insert.upserts = 3
    /\ last.ret = 2
    /\ ~last.insert.raised

(***************************************************************************)
(* The query-path claim.                                                   *)
(***************************************************************************)
\* C13: a search of the engine, hybrid or semantic only, during which the
\* embedder or the vector store fails does not raise and returns no result.
C13_QueryNeverRaises ==
    (last.op \in {"hybrid_search", "semantic_search"} /\ last.fault # "none")
        => /\ ~last.raised
           /\ last.ret = 0

(***************************************************************************)
(* The claims about runs in which a step fails.                            *)
(***************************************************************************)
\* the run that just returned reports the failure of its step
FailureReported ==
    last'.fault # "none" => (~last'.result.success /\ last'.result.error # "")

\* C14 as stated: a run ends in an IndexResult; when a step of it failed, or
\* the directory does not exist, the result has success = false and an
\* error; when the result has success = true the index file holds the index
\* as the run left it.
C14_FailureReportedSaveDone ==
    [][last'.op \in RunOps
        => /\ FailureReported
           /\ last'.result.success => disk' = Save(index')]_vars

\* C14 amended: the same, the save being done by the successful runs that
\* extracted an entity; a successful run that extracted none returns before
\* the storage is touched and writes nothing.
C14_FailureReportedSaveDoneWhenNonEmpty ==
    [][last'.op \in RunOps
        => /\ FailureReported
           /\ last'.result.success
                => IF last'.result.entities_found > 0
                   THEN disk' = Save(index')
                   ELSE /\ disk' = disk
                        /\ index' = index
                        /\ vstore' = vstore]_vars

\* a run whose save failed: success = false, and entities in the index that
\* the file does not hold
C14_Witness ==
    /\ last.op \in RunOps
    /\ last.fault = "save"
    /\ ~last.result.success
    /\ last.result.error # ""
    /\ index.entities # <<>>
    /\ disk # Save(index)

\* the vector stored for each extracted entity: the zero vector for those of
\* a failed batch, an embedding for the others
VectorsInEntityOrder ==
    \A i \in 1..Len(Extracted) :
        /\ Extracted[i].id \in DOMAIN vstore'
        /\ vstore'[Extracted[i].id].vector =
                IF BatchOf(i) \in last'.failed THEN "zero" ELSE "unit"

\* C15: a run in which the embedder fails on some batches and no step
\* raises ends with success = true; every extracted entity is stored with
\* one vector, in entity order, zero vectors for the failed batches and
\* embeddings for the others; and every extracted entity is in the BM25
\* index.
C15_ZeroVectorFallback ==
    [][(/\ last'.op \in RunOps
        /\ last'.fault = "none"
        /\ last'.failed # {})
        => /\ last'.result.success
           /\ last'.result.entities_indexed = last'.result.entities_found
           /\ VectorsInEntityOrder
           /\ OfRepo(index'.entities, last'.repo) = Extracted]_vars

\* of two entities the first was embedded, the batch of the second failed
C15_Witness ==
    /\ last.op \in RunOps
    /\ last.fault = "none"
    /\ last.failed # {}
    /\ last.result.success
    /\ last.result.entities_found >= 2
    /\ \E id \in DOMAIN vstore : vstore[id].vector = "zero"
    /\ \E id \in DOMAIN vstore : vstore[id].vector = "unit"
    /\ Len(index.entities) >= 2

\* the faults that end a run after it has started to write: in the BM25
\* purge (after the vector purge), in the embedding or the insert (after both
\* purges), in the BM25 add (after the upsert), in the save (after the add)
PartialFaults ==
    {"remove_by_repo", "embed_entities", "insert", "add_entities", "save"}

\* the run that just returned succeeded, and the run before it was a run
\* of the same repository that stopped after it had started to write
SucceededAfterPartial ==
    /\ last'.op \in RunOps
    /\ last'.result.success
    /\ last'.before \in PartialFaults

\* the vector store, the BM25 index and the index file hold for the
\* repository exactly what the run extracted
Healed == RunReplacedSnapshot /\ disk' = Save(index')

\* C16 as stated: after a run of r that stopped after it had started to
\* write, the next successful run of r leaves in the vector store, in the
\* BM25 index and in the index file exactly its own entities for r.
C16_NextRunHeals == [][SucceededAfterPartial => Healed]_vars

\* C16 amended: the same when the successful run extracted at least one
\* entity; a successful run that extracted none leaves what the stopped run
\* wrote.
C16_NextNonEmptyRunHeals ==
    [][SucceededAfterPartial
        => IF last'.result.entities_found > 0
           THEN Healed
           ELSE /\ vstore' = vstore
                /\ index' = index
                /\ disk' = disk]_vars

\* the save of a run of two entities failed; the next run of the repository
\* found one entity, and that is all the indices and the file hold
C16_Witness ==
    /\ last.op \in RunOps
    /\ last.result.success
    /\ last.before = "save"
    /\ last.result.entities_found = 1
    /\ Len(index.entities) = 1
    /\ DOMAIN vstore = {3}
    /\ disk = Save(index)

(***************************************************************************)
(* The claim about queries during a re-index.                              *)
(***************************************************************************)
ReindexOrder ==
    <<"delete_by_repo", "remove_by_repo", "embed_entities", "insert",
      "add_entities", "save">>

\* the step taken is followed by the next of the order, the last by the end
\* of the run
StepsInOrder ==
    (writer.pc = "run" /\ writer' # writer)
        => \E k \in 1..Len(ReindexOrder) :
              /\ writer.step = ReindexOrder[k]
              /\ IF k < Len(ReindexOrder)
                 THEN writer'.pc = "run" /\ writer'.step = ReindexOrder[k + 1]
                 ELSE writer' = IdleWriter

\* the ids of the snapshot the run is writing
NewIds(run) == {run.entities[i].id : i \in 1..Len(run.entities)}

\* the ids are of one snapshot of the repository of the run: none of them
\* is new, or none of them is old
OneSnapshot(ids, run) ==
    (ids \cap NewIds(run) = {}) \/ (ids \subseteq NewIds(run))

\* a query was answered while the run is between two steps
QueriedDuringRun ==
    /\ writer.pc = "run"
    /\ writer' = writer
    /\ engine' = engine
    /\ last'.op \in {"hybrid_search", "semantic_search"}

\* the entities of the repository of the run among the results
RunRepoResults(rows) ==
    {rows[i].id : i \in {k \in 1..Len(rows) : rows[k].repo_name = writer.repo_name}}

\* no index holds entities of the old and of the new snapshot
IndicesUnmixed ==
    writer'.pc = "run"
        => /\ OneSnapshot({id \in DOMAIN vstore' :
                            vstore'[id].payload.repo_name = writer'.repo_name},
                          writer')
           /\ OneSnapshot(IdsOf(OfRepo(index'.entities, writer'.repo_name)),
                          writer')
           /\ OneSnapshot(IdsOf(OfRepo(Load(EmptyIndex, disk').ix.entities,
                                       writer'.repo_name)),
                          writer')

\* C17: the steps of a re-index of r run in the order vector purge, BM25
\* purge, embedding, vector upsert, BM25 add, save; a query answered
\* between two of them does not raise, and what it returns of r is of one
\* snapshot, the old or the new one, with entities possibly missing; and no
\* index holds entities of both snapshots of r.
C17_QueriesSafeDuringReindex ==
    [][/\ StepsInOrder
       /\ IndicesUnmixed
       /\ QueriedDuringRun
            => /\ ~last'.raised
               /\ OneSnapshot(RunRepoResults(last'.results), writer)]_vars

(***************************************************************************)
(* C18: the weights of the fusion.                                         *)
(***************************************************************************)
\* max - min of the scores of a non-empty vector result list, in hundredths
Spread(semantic) ==
    LET ss == {semantic[i].score : i \in 1..Len(semantic)}
    IN (CHOOSE hi \in ss : \A x \in ss : x <= hi)
       - (CHOOSE lo \in ss : \A x \in ss : lo <= x)

\* the ids a result list names
HitIds(results) == {results[i].entity.id : i \in 1..Len(results)}

\* the semantic weight the fusion is to work with, in tenths
WeightInEffect(f) ==
    IF f.semantic # <<>> /\ Spread(f.semantic) < 5 THEN 3
    ELSE IF f.semantic_weight = <<>> THEN 7
    ELSE f.semantic_weight[1]

\* C18: a fusion weighs every vector result with 0.3 exactly when the
\* vector list is non-empty and its scores span less than 0.05, and with
\* the caller's weight, or 0.7 when the caller gave none, in every other
\* case; every BM25 result is weighed with 1 minus that weight.
C18_AdaptiveWeight ==
    last.op = "fusion" =>
        LET f == last.fusion
            w == WeightInEffect(f)
        IN /\ {f.scores[i].id : i \in 1..Len(f.scores)}
                = HitIds(f.semantic) \cup HitIds(f.bm25)
           /\ \A i \in 1..Len(f.scores) :
                /\ f.scores[i].id \in HitIds(f.semantic) => f.scores[i].sw = w
                /\ f.scores[i].id \in HitIds(f.bm25) => f.scores[i].bw = 10 - w

\* a fusion of two vector results 0.04 apart under the caller's weight 0.5:
\* they are weighed with 0.3 and the BM25 results with 0.7
C18_Witness ==
    /\ last.op = "fusion"
    /\ Len(last.fusion.semantic) = 2
    /\ Spread(last.fusion.semantic) = 4
    /\ last.fusion.semantic_weight = <<5>>
    /\ last.fusion.bm25 # <<>>
    /\ \E i \in 1..Len(last.fusion.scores) : last.fusion.scores[i].sw = 3
    /\ \E i \in 1..Len(last.fusion.scores) : last.fusion.scores[i].bw = 7

(***************************************************************************)
(* C19: the BM25 winner under vector scores that do not discriminate.      *)
(***************************************************************************)
\* the place of id in a ranking of ids, 0 when it is not there
PlaceOf(ranked, id) ==
    IF \E i \in 1..Len(ranked) : ranked[i] = id
    THEN CHOOSE i \in 1..Len(ranked) : ranked[i] = id
    ELSE 0

\* the ids of the first n results of a list
FirstIds(results, n) ==
    {results[i].entity.id : i \in 1..(IF n < Len(results) THEN n ELSE Len(results))}

\* a fusion at the default weight, of vector results with scores within
\* [0.82, 0.83] and BM25 results, for a query without http, request or api
FlatVectorScores ==
    /\ last.op = "fusion"
    /\ \A i \in 1..Len(last.fusion.semantic) :
            last.fusion.semantic[i].score \in 82..83
    /\ last.fusion.bm25 # <<>>
    /\ last.fusion.semantic_weight = <<>>
    /\ ~AnyTermIn(last.query, {"http", "request", "api"})

IdNamed(name, file_path) ==
    (CHOOSE e \in FusionPool : e.name = name /\ e.file_path = file_path).id

\* a fusion for the query "send HTTP request"
HttpFusion ==
    /\ last.op = "fusion"
    /\ last.query = <<"send", "HTTP", "request">>

\* send is placed before handle_request in the ranking
SendFirst ==
    PlaceOf(last.fusion.ranked, IdNamed("send", "sessions.py"))
        < PlaceOf(last.fusion.ranked, IdNamed("handle_request", "views.py"))

RECURSIVE FirstSeen(_, _)
FirstSeen(ids, seen) ==
    IF ids = <<>> THEN <<>>
    ELSE IF Head(ids) \in seen THEN FirstSeen(Tail(ids), seen)
    ELSE <<Head(ids)>> \o FirstSeen(Tail(ids), seen \cup {Head(ids)})

InsertionOrder(f) ==
    FirstSeen([i \in 1..Len(f.semantic) |-> f.semantic[i].entity.id]
                \o [i \in 1..Len(f.bm25) |-> f.bm25[i].entity.id], {})

\* the fused score of a row of the scores dict as numerator and denominator
FusedScore(row, query) ==
    LET e == CHOOSE x \in FusionPool : x.id = row.id
    IN [num |-> (row.sw * row.bd + row.bw * row.sd) * HttpBoost(e, query),
        den |-> row.sd * row.bd]

\* the row of the scores dict for an id
RowOf(f, id) == f.scores[PlaceOf([i \in 1..Len(f.scores) |-> f.scores[i].id], id)]

\* the ranking lists every entity of the dict once, by falling fused score,
\* equal scores in insertion order
FusionOrdered ==
    LET f == last.fusion
        order == InsertionOrder(f)
    IN /\ Len(f.ranked) = Len(order)
       /\ Range(f.ranked) = Range(order)
       /\ \A i \in 1..(Len(f.ranked) - 1) :
            LET a == FusedScore(RowOf(f, f.ranked[i]), last.query)
                b == FusedScore(RowOf(f, f.ranked[i + 1]), last.query)
            IN \/ a.num * b.den > b.num * a.den
               \/ /\ a.num * b.den = b.num * a.den
                  /\ PlaceOf(order, f.ranked[i]) < PlaceOf(order, f.ranked[i + 1])

\* the row of the index that holds the entity of this id
IndexRow(ix, id) ==
    CHOOSE i \in 1..Len(ix.entities) : ix.entities[i].id = id

\* the results of search come by falling score, equal scores by index row
SearchOrdered ==
    \A i \in 1..(Len(last.results) - 1) :
        \/ last.results[i].score > last.results[i + 1].score
        \/ /\ last.results[i].score = last.results[i + 1].score
           /\ IndexRow(index, last.results[i].id)
                < IndexRow(index, last.results[i + 1].id)

\* C21: the fusion returns the one order that its arguments fix, by falling
\* fused score with equal scores in insertion order (vector results in rank
\* order, then the BM25-only results in rank order), and BM25Index.search
\* returns documents of equal score in the order of their index rows.
C21_StableRanking ==
    /\ last.op = "fusion" => FusionOrdered
    /\ last.op = "search" => SearchOrdered

\* a fusion in which a vector-only entity and a BM25-only entity score the
\* same and the vector one comes first
C21_Witness ==
    /\ last.op = "fusion"
    /\ \E i \in 1..(Len(last.fusion.ranked) - 1) :
          LET ra == RowOf(last.fusion, last.fusion.ranked[i])
              rb == RowOf(last.fusion, last.fusion.ranked[i + 1])
              a == FusedScore(ra, last.query)
              b == FusedScore(rb, last.query)
          IN /\ a.num * b.den = b.num * a.den
             /\ ra.bw = 0
             /\ rb.sw = 0

(***************************************************************************)
(* C22: the class entities of the Python extractor.                        *)
(***************************************************************************)
\* the nodes of a tree in DFS pre-order
RECURSIVE PreOrder(_)
PreOrder(node) ==
    <<node>> \o Flatten([i \in 1..Len(node.children) |-> PreOrder(node.children[i])])

\* the names of the class definitions of a tree, in source order
ClassNames(tree) ==
    LET nodes == PreOrder(tree)
    IN Flatten([i \in 1..Len(nodes) |->
                  IF nodes[i].type = "class_definition"
                  THEN <<FirstText(nodes[i], "identifier")>> ELSE <<>>])

\* the names of the entities of a kind, in the order returned
NamesOfKind(entities, kind) ==
    Flatten([i \in 1..Len(entities) |->
               IF entities[i].entity_type = kind THEN <<entities[i].name>> ELSE <<>>])

\* the source is one top-level class whose body holds methods only
SingleClassWithMethods(tree) ==
    /\ Len(tree.children) = 1
    /\ tree.children[1].type = "class_definition"
    /\ ClassNames(tree) = <<FirstText(tree.children[1], "identifier")>>
    /\ \E i \in 1..Len(PreOrder(tree)) :
            PreOrder(tree)[i].type = "function_definition"

\* C22: PythonParser.parse_content returns one class entity for every class
\* definition of the source, with and without tree-sitter; for a source
\* that is one top-level class with methods that is the one class entity of
\* that name, next to method entities whose parent_class is that name.
C22_ClassEntityPerClass ==
    last.op = "parse_content" /\ last.parse.language = "python" =>
        LET p == last.parse IN
        /\ NamesOfKind(p.entities, "CLASS") = ClassNames(p.tree)
        /\ SingleClassWithMethods(p.tree) =>
              /\ NamesOfKind(p.entities, "METHOD") # <<>>
              /\ \A i \in 1..Len(p.entities) :
                    p.entities[i].entity_type # "CLASS" =>
                        /\ p.entities[i].entity_type = "METHOD"
                        /\ p.entities[i].parent_class = ClassNames(p.tree)[1]

(***************************************************************************)
(* C23: the order of the entities an extractor returns.                    *)
(***************************************************************************)
\* the types of the nodes that declare a class, and a function or method
ClassNodes == {"class_definition", "class_declaration"}

CallableNodes ==
    {"function_definition", "function_declaration", "method_definition",
     "variable_declarator"}

\* the declarations of a tree in DFS pre-order, as (name, is a class)
Declarations(tree) ==
    LET nodes == PreOrder(tree)
    IN Flatten([i \in 1..Len(nodes) |->
          IF nodes[i].type \in ClassNodes
          THEN <<<<FirstText(nodes[i], "identifier"), TRUE>>>>
          ELSE IF nodes[i].type = "method_definition"
          THEN <<<<FirstText(nodes[i], "property_identifier"), FALSE>>>>
          ELSE IF nodes[i].type \in CallableNodes
          THEN <<<<FirstText(nodes[i], "identifier"), FALSE>>>>
          ELSE <<>>])

\* s is t with some elements left out
RECURSIVE IsSubsequence(_, _)
IsSubsequence(s, t) ==
    IF s = <<>> THEN TRUE
    ELSE IF t = <<>> THEN FALSE
    ELSE IF Head(s) = Head(t) THEN IsSubsequence(Tail(s), Tail(t))
    ELSE IsSubsequence(s, Tail(t))

\* the entities come in the order of their declarations in the source
InSourceOrder(p) ==
    IsSubsequence([i \in 1..Len(p.entities) |->
                      <<p.entities[i].name, p.entities[i].entity_type = "CLASS">>],
                  Declarations(p.tree))

\* the entity of a class stands before the entities of its methods
ClassBeforeMethods(p) ==
    \A i \in 1..Len(p.entities) :
        p.entities[i].parent_class # "" =>
            \E j \in 1..(i - 1) :
                /\ p.entities[j].entity_type = "CLASS"
                /\ p.entities[j].name = p.entities[i].parent_class

\* C23: the entities parse_content returns follow the DFS pre-order of the
\* declarations: they come in source order, and the entity of a class comes
\* before the entities of the methods declared in it.
C23_PreOrderOfDeclarations ==
    last.op = "parse_content" =>
        InSourceOrder(last.parse) /\ ClassBeforeMethods(last.parse)

(***************************************************************************)
(* C24: the table of the boost.                                            *)
(***************************************************************************)
\* the pairs (name, prefix) with name starting with prefix
PrefixPairs ==
    { <<"handle_request", "handle_">>, <<"handle_event", "handle_">>,
      <<"test_login", "test_">> }

\* the boost by the rule table, in tenths: the name is one of the request
\* words, the name starts with handle_ or test_
TableBoost(entity, query) ==
    IF ~AnyTermIn(query, {"http", "request", "api"}) THEN 10
    ELSE IF /\ Contains(Lower(entity.file_path), "api.py")
            /\ Lower(entity.name) \in {"request", "get", "post", "put", "patch",
                                       "delete", "head", "options"}
         THEN 15
    ELSE IF /\ Contains(Lower(entity.file_path), "sessions.py")
            /\ Contains(Lower(entity.name), "send")
         THEN 15
    ELSE IF /\ Contains(Lower(entity.file_path), "adapters.py")
            /\ Contains(Lower(entity.name), "send")
         THEN 13
    ELSE IF \E prefix \in {"handle_", "test_"} :
                <<Lower(entity.name), prefix>> \in PrefixPairs
         THEN 7
    ELSE 10

\* C24: the boost of an entity is the one the rule table gives for its
\* path and name when the query contains http, request or api, and 1.0 for
\* every entity under any other query.
C24_BoostFollowsTable ==
    last.op = "http_boost" => last.ret = TableBoost(last.results[1], last.query)

(***************************************************************************)
(* C25: the floor, the filters, the order and the limit of BM25 search.    *)
(***************************************************************************)
\* the scores of the documents of the index for the query of the call
QueryScores == GetScores(index.corpus, Tokenize(last.query))

\* the rows of the index a search keeps: at least 0.01 of the maximum when
\* that is positive, every row otherwise, and passing the filters
KeptRows ==
    { i \in 1..Len(index.entities) :
        /\ (MaxOf(QueryScores) > 0 => 100 * QueryScores[i] >= MaxOf(QueryScores))
        /\ PassesFilters(index.entities[i], last.filters) }

\* the rows behind the results of the call
ResultRowsOf == { i \in 1..Len(index.entities) :
                    \E k \in 1..Len(last.results) :
                        last.results[k].id = index.entities[i].id }

\* C25: search returns nothing for an empty index or a query without
\* tokens; otherwise it returns min(limit, kept) rows, each a kept row with
\* its score, in descending order of score, and no kept row left out
\* scores higher than a returned one.
C25_SearchFloorFiltersOrderLimit ==
    last.op = "search" =>
        IF index.entities = <<>> \/ Tokenize(last.query) = <<>>
        THEN last.results = <<>>
        ELSE /\ ResultRowsOf \subseteq KeptRows
             /\ Len(last.results) = Cardinality(ResultRowsOf)
             /\ Len(last.results) =
                    IF Cardinality(KeptRows) < last.limit
                    THEN Cardinality(KeptRows) ELSE last.limit
             /\ \A i \in ResultRowsOf : \E k \in 1..Len(last.results) :
                    /\ last.results[k].id = index.entities[i].id
                    /\ last.results[k].score = QueryScores[i]
             /\ \A k \in 1..(Len(last.results) - 1) :
                    last.results[k].score >= last.results[k + 1].score
             /\ \A i \in KeptRows \ ResultRowsOf, k \in 1..Len(last.results) :
                    QueryScores[i] <= last.results[k].score

\* a search of three documents for a query none of them contains: the
\* maximum is zero and all are kept up to the limit
C25_WitnessNoFloor ==
    /\ last.op = "search"
    /\ Len(index.entities) = 3
    /\ Tokenize(last.query) # <<>>
    /\ MaxOf(QueryScores) <= 0
    /\ Len(last.results) = last.limit

\* a search with a positive maximum that drops a row under the floor and
\* returns the rest
C25_WitnessFloor ==
    /\ last.op = "search"
    /\ index.entities # <<>>
    /\ MaxOf(QueryScores) > 0
    /\ \E i \in 1..Len(index.entities) : 100 * QueryScores[i] < MaxOf(QueryScores)
    /\ last.results # <<>>

\* a search of an index with entities for a query without tokens
C25_WitnessNoTokens ==
    /\ last.op = "search"
    /\ index.entities # <<>>
    /\ Tokenize(last.query) = <<>>
    /\ last.results = <<>>

(***************************************************************************)
(* C26: the three structures of the BM25 index stay parallel.              *)
(***************************************************************************)
\* the entity list, the corpus, the id-map and the model of ix agree
ParallelStructures(ix) ==
    /\ Len(ix.entities) = Len(ix.corpus)
    /\ DOMAIN ix.entity_ids = {ix.entities[i].id : i \in 1..Len(ix.entities)}
    /\ \A i \in 1..Len(ix.entities) : ix.entity_ids[ix.entities[i].id] = i - 1
    /\ ix.bm25.built <=> ix.corpus # <<>>
    /\ ix.bm25.built => ix.bm25.corpus = ix.corpus

\* C26: after any sequence of add_entities, remove_by_repo, clear, save and
\* load of the saved file, the entity list and the corpus have the same
\* length, the id-map has one entry per stored entity mapping its id to its
\* row, and the model is absent exactly for an empty corpus and otherwise
\* built from the current corpus.
C26_StructuresStayParallel == ParallelStructures(index)

\* a removal that kept the first row and at least one more
C26_WitnessRemove ==
    /\ last.op = "remove_by_repo"
    /\ last.ret > 0
    /\ Len(index.entities) >= 2
    /\ index.entities[1].repo_name # last.repo

\* a load of a saved file that brought entities back
C26_WitnessLoad ==
    /\ last.op = "load"
    /\ last.ret = 1
    /\ index.entities # <<>>
    /\ disk.kind = "pickle"

(***************************************************************************)
(* C27: one settlement per delivery.                                       *)
(***************************************************************************)
\* C27: for each message it is called with, _process_message issues exactly
\* one basic_ack or basic_reject for the delivery tag, on every path,
\* an exception in the acknowledgement itself included.
C27_SettledExactlyOnce ==
    last.op = "process_message" => Len(delivery.calls) = 1

\* on a channel whose calls go through, every path issues one call
C27_OnceOnOpenChannel ==
    (last.op = "process_message" /\ delivery.fault = "open")
        => Len(delivery.calls) = 1 /\ ~last.raised

(***************************************************************************)
(* C28: the two indices after a successful run.                            *)
(***************************************************************************)
\* the ids of the points of repo r in the vector store
VectorIds(r) == {id \in DOMAIN vstore : vstore[id].payload.repo_name = r}

\* the ids of the entities of repo r in the BM25 index the indexer holds
Bm25Ids(r) ==
    {PriorIndex.entities[i].id :
        i \in {k \in 1..Len(PriorIndex.entities) :
                    PriorIndex.entities[k].repo_name = r}}

\* both indices hold the same ids for the repo of the run, and the counts
\* of the result are the number of them
IndicesAgreeWithResult ==
    /\ VectorIds(last.repo) = Bm25Ids(last.repo)
    /\ last.result.entities_indexed = last.result.entities_found
    /\ last.result.entities_indexed = Cardinality(VectorIds(last.repo))
    /\ last.result.entities_indexed = Cardinality(Bm25Ids(last.repo))

DiskEntities ==
    IF disk.kind = "pickle" THEN Range(disk.data.entities) ELSE {}

\* a step that is a successful run of indexer k that extracted something
SuccessfulRunOf(k) ==
    /\ last'.op = "index_repo"
    /\ last'.n = k
    /\ last'.result.success
    /\ last'.result.entities_found > 0
    /\ runs' # runs

\* C29: when two indexers, each with its own BM25 index loaded from the
\* same directory, run for different repositories, the save of a run does
\* not discard what the file holds of the other repositories: the file
\* afterwards holds the entities of both.
C29_SaveKeepsOtherRepos ==
    [][\A k \in Indexers :
          SuccessfulRunOf(k)
            => \A e \in DiskEntities :
                  e["repo_name"] # last'.repo => e \in DiskEntities']_vars

\* a run keeps the entities of the other repositories that its own
\* indexer holds
C29_SaveKeepsOwnView ==
    [][\A k \in Indexers :
          SuccessfulRunOf(k)
            => \A i \in 1..Len(SysOf(k).index.entities) :
                  (SysOf(k).ready /\ SysOf(k).index.entities[i].repo_name # last'.repo)
                    => ModelDump(SysOf(k).index.entities[i]) \in DiskEntities']_vars

(***************************************************************************)
(* C30: the cached engine after a run of a separate indexer.               *)
(***************************************************************************)
\* the ids of the entities of repo r in the index file
SavedIds(r) ==
    {e["id"] : e \in {d \in DiskEntities : d["repo_name"] = r}}

\* a run of repo r by the separate indexer has just saved the index
RunSaved(r) ==
    /\ last.op = "index_repo"
    /\ last.repo = r
    /\ last.result.success
    /\ SavedIds(r) # {}

\* some hybrid query on the engine returns an entity of the saved snapshot
\* of r that the BM25 index of the engine found (engine.py 201-205)
CanReturnFromBm25(r) ==
    \E query \in Queries, limit \in Limits :
        \E ranking \in Rankings(vstore), scores \in ScoreProfiles(vstore) :
            LET call == EngineSearch(vstore, engine, query, limit, NoFilters,
                                     TRUE, DefaultSemanticWeight, ranking,
                                     scores, "none")
                hits == Search(engine, query, limit * 2, NoFilters).items
            IN \E k \in 1..Len(call.results), j \in 1..Len(hits) :
                    /\ call.results[k].entity.id \in SavedIds(r)
                    /\ hits[j].entity.id = call.results[k].entity.id

\* C30: once a run of a separate indexer has saved the BM25 index with the
\* entities of repo r, the hybrid queries on the engine built before the
\* run come to return entities of r found by BM25. The state right after
\* the save decides it, since no step of the server changes the index of
\* the engine: some query must return them there.
C30_FoundByBm25AfterSave ==
    \A r \in RepoNames : RunSaved(r) => CanReturnFromBm25(r)

\* the BM25 index of the engine stays the one its constructor loaded
C30_EngineNeverRefreshed == [][engine' = engine]_vars

=============================================================================
